---- MODULE Spec2Model ----
(***************************************************************************)
(* A model of the MetaWards core: the Ward builder (_ward.py), the         *)
(* additional-seed advancer (iterators/_advance_additional.py), the staged *)
(* plugin dispatch (utils/_get_functions.py), the custom iterator wrapper  *)
(* (iterators/_iterate_custom.py), the custom mixer wrapper                *)
(* (mixers/_mix_custom.py) and the multi-demographic Networks              *)
(* (_networks.py): build, assert_sane and the seeding of run.              *)
(*                                                                         *)
(* Encodings.                                                              *)
(*  - Python None is NoneV.  Integer ward ids are the integers >= 0 (0 is  *)
(*    an invalid id that callers may pass).  A WardInfo object is encoded  *)
(*    as an integer <= -2, so that integer and WardInfo dictionary keys    *)
(*    live in one ordered domain and isinstance(key, int) is key >= 0.     *)
(*  - Player weights are fixed-point numbers: One stands for 1.0, Tiny for *)
(*    the 1e-10 tolerance of add/subtract_player_weight and from_data and  *)
(*    SaneTol for the 1e-6 tolerance of assert_sane.  Arithmetic is exact  *)
(*    (floating-point rounding is not modelled).                           *)
(*  - Positions are fixed-point numbers in thousandths (Milli).            *)
(*  - A Python dict is a function whose DOMAIN is the set of keys.         *)
(***************************************************************************)
EXTENDS Integers, Sequences, FiniteSets, TLC

\* ---------------------------------------------------------------- bounds
MaxId == 2          \* integer ward ids used as inputs are 0..MaxId
MaxWorkers == 2     \* cap on num_workers reached through add_workers
MaxPlayers == 1     \* inputs of set_num_players are -1..MaxPlayers
MaxLinks == 1       \* cap on the number of links of a ward in SpecWard

\* ------------------------------------------------------ program constants
One == 6            \* 1.0, the initial _player_total
Tiny == 2           \* tiny = 1e-10
SaneTol == 3        \* 1e-6 in assert_sane
Milli == 1000       \* fixed-point scale of positions; units "m" is 0.001

NoneV == -1
InfoA == -2         \* the WardInfo of the modelled ward
InfoB == -3         \* the WardInfo of another ward
InfoKeys == {InfoA, InfoB}
IdInputs == 0..MaxId
DestInputs == {NoneV} \cup IdInputs \cup InfoKeys

isinstance_int(key) == key >= 0
isinstance_WardInfo(key) == key <= -2

\* ------------------------------------------------------------ dictionaries
EmptyDict == [k \in {} |-> 0]
Has(d, k) == k \in DOMAIN d
Put(d, k, v) == [x \in (DOMAIN d) \cup {k} |-> IF x = k THEN v ELSE d[x]]
Del(d, k) == [x \in (DOMAIN d) \ {k} |-> d[x]]
Get(d, k, default) == IF Has(d, k) THEN d[k] ELSE default

RECURSIVE SumOver(_, _)
SumOver(d, S) ==
    IF S = {} THEN 0
    ELSE LET k == CHOOSE x \in S : TRUE IN d[k] + SumOver(d, S \ {k})
SumValues(d) == SumOver(d, DOMAIN d)

RECURSIVE SumSeq(_)
SumSeq(s) == IF s = <<>> THEN 0 ELSE Head(s) + SumSeq(Tail(s))

Abs(x) == IF x < 0 THEN -x ELSE x

\* keys.sort(): the keys of a set in ascending order
RECURSIVE SortedSeq(_)
SortedSeq(S) ==
    IF S = {} THEN <<>>
    ELSE LET m == CHOOSE x \in S : \A y \in S : x <= y
         IN <<m>> \o SortedSeq(S \ {m})

Ok(w) == [w |-> w, err |-> "none"]
Raise(w, e) == [w |-> w, err |-> e]

\* ------------------------------------------------------------------- Ward
\* Ward.__init__ with a non-null WardInfo
NewWard(id, info, auto) ==
    [id |-> id, info |-> info,
     workers |-> EmptyDict, players |-> EmptyDict,
     player_total |-> One, num_workers |-> 0, num_players |-> 0,
     pos |-> [kind |-> "none", a |-> 0, b |-> 0],
     auto_assign_players |-> auto]

\* _as_positive_integer: TRUE when the call raises ValueError
_as_positive_integer_raises(number, zero_allowed) ==
    number < 0 \/ (number = 0 /\ ~zero_allowed)

\* _as_positive_float: TRUE when the call raises ValueError
_as_positive_float_raises(number) == number < 0

\* Ward._resolve_destination for destination None, an int or a WardInfo
_resolve_destination(w, destination) ==
    LET d == IF destination = NoneV
             THEN (IF w.id = NoneV THEN w.info ELSE w.id)
             ELSE destination
    IN IF ~isinstance_WardInfo(d) /\ _as_positive_integer_raises(d, FALSE)
       THEN [dest |-> d, err |-> "ValueError"]
       ELSE [dest |-> d, err |-> "none"]

add_workers(w, number, destination) ==
    LET r == _resolve_destination(w, destination) IN
    IF r.err # "none" THEN Raise(w, r.err)
    ELSE IF _as_positive_integer_raises(number, TRUE) THEN Raise(w, "ValueError")
    ELSE LET d == r.dest
             w0 == IF ~Has(w.workers, d) THEN Put(w.workers, d, 0) ELSE w.workers
         IN Ok([w EXCEPT !.workers = Put(w0, d, w0[d] + number),
                         !.num_workers = w.num_workers + number])

\* subtract_workers with "self._num_workers -= number" run before the
\* statement that raises
subtract_workers_count_first(w, number, destination) ==
    LET r == _resolve_destination(w, destination) IN
    IF r.err # "none" THEN Raise(w, r.err)
    ELSE IF _as_positive_integer_raises(number, TRUE) THEN Raise(w, "ValueError")
    ELSE LET d == r.dest IN
         IF ~Has(w.workers, d) THEN Ok(w)
         ELSE IF number >= w.workers[d]
         THEN Ok([w EXCEPT !.num_workers = w.num_workers - w.workers[d],
                           !.workers = Del(w.workers, d)])
         ELSE Raise([w EXCEPT !.num_workers = w.num_workers - number],
                    "TypeError")

subtract_workers(w, number, destination) ==
    LET r == _resolve_destination(w, destination) IN
    IF r.err # "none" THEN Raise(w, r.err)
    ELSE IF _as_positive_integer_raises(number, TRUE) THEN Raise(w, "ValueError")
    ELSE LET d == r.dest IN
         IF ~Has(w.workers, d) THEN Ok(w)
         ELSE IF number >= w.workers[d]
         THEN Ok([w EXCEPT !.num_workers = w.num_workers - w.workers[d],
                           !.workers = Del(w.workers, d)])
         \* self._workers -= number: a dict minus an int raises TypeError
         \* before anything is assigned
         ELSE Raise(w, "TypeError")

get_workers(w, destination) ==
    LET r == _resolve_destination(w, destination) IN
    Get(w.workers, r.dest, 0)

set_num_workers(w, number) ==
    IF _as_positive_integer_raises(number, TRUE) THEN Raise(w, "ValueError")
    ELSE LET delta == number - w.num_workers IN
         IF delta > 0 THEN add_workers(w, delta, NoneV)
         ELSE IF delta < 0
         THEN (IF delta <= get_workers(w, NoneV)
               THEN subtract_workers(w, delta, NoneV)
               ELSE Raise(w, "ValueError"))
         ELSE Ok(w)

\* add_player_weight that also snaps a weight exactly 1e-10 away from
\* player_total
add_player_weight_snap_at_tiny(w, weight, destination) ==
    IF _as_positive_float_raises(weight) THEN Raise(w, "ValueError")
    ELSE LET r == _resolve_destination(w, destination) IN
    IF r.err # "none" THEN Raise(w, r.err)
    ELSE IF weight < Tiny THEN Ok(w)
    ELSE LET d == r.dest
             wt == IF Abs(weight - w.player_total) <= Tiny
                   THEN w.player_total ELSE weight
         IN IF wt > w.player_total THEN Raise(w, "ValueError")
            ELSE LET p0 == IF ~Has(w.players, d) THEN Put(w.players, d, 0)
                           ELSE w.players
                     t == w.player_total - wt
                 IN Ok([w EXCEPT !.players = Put(p0, d, p0[d] + wt),
                                 !.player_total = IF t < Tiny THEN 0 ELSE t])

add_player_weight(w, weight, destination) ==
    IF _as_positive_float_raises(weight) THEN Raise(w, "ValueError")
    ELSE LET r == _resolve_destination(w, destination) IN
    IF r.err # "none" THEN Raise(w, r.err)
    ELSE IF weight < Tiny THEN Ok(w)
    ELSE LET d == r.dest
             wt == IF Abs(weight - w.player_total) < Tiny
                   THEN w.player_total ELSE weight
         IN IF wt > w.player_total THEN Raise(w, "ValueError")
            ELSE LET p0 == IF ~Has(w.players, d) THEN Put(w.players, d, 0)
                           ELSE w.players
                     t == w.player_total - wt
                 IN Ok([w EXCEPT !.players = Put(p0, d, p0[d] + wt),
                                 !.player_total = IF t < Tiny THEN 0 ELSE t])

subtract_player_weight(w, weight, destination) ==
    IF _as_positive_float_raises(weight) THEN Raise(w, "ValueError")
    ELSE LET r == _resolve_destination(w, destination) IN
    IF r.err # "none" THEN Raise(w, r.err)
    ELSE IF weight < Tiny THEN Ok(w)
    ELSE LET d == r.dest IN
         IF ~Has(w.players, d) THEN Ok(w)
         ELSE LET wt == IF weight > w.players[d] THEN w.players[d] ELSE weight
                  t == w.player_total + wt
              IN Ok([w EXCEPT !.players = Del(w.players, d),
                              !.player_total =
                                  IF Abs(t - One) < Tiny THEN One ELSE t])

\* the loop "for key in list(d.keys()): if key == old: d[new] = d[old]; del d[old]"
MoveKey(d, old, new) ==
    IF Has(d, old) THEN Put(Del(d, old), new, d[old]) ELSE d

set_id(w, id) ==
    IF id < 1 THEN Raise(w, "ValueError")
    ELSE IF id = w.id THEN Ok(w)
    ELSE IF Has(w.workers, id) \/ Has(w.players, id) THEN Raise(w, "ValueError")
    ELSE LET old_id == w.id
             wk1 == IF old_id # NoneV THEN MoveKey(w.workers, old_id, id)
                    ELSE w.workers
             pl1 == IF old_id # NoneV THEN MoveKey(w.players, old_id, id)
                    ELSE w.players
             wk2 == IF ~Has(wk1, id) THEN MoveKey(wk1, w.info, id) ELSE wk1
             pl2 == IF ~Has(pl1, id) THEN MoveKey(pl1, w.info, id) ELSE pl1
         IN Ok([w EXCEPT !.id = id, !.workers = wk2, !.players = pl2])

set_num_players(w, number) ==
    IF _as_positive_integer_raises(number, TRUE) THEN Raise(w, "ValueError")
    ELSE Ok([w EXCEPT !.num_players = number])

set_auto_assign_players(w, auto) == Ok([w EXCEPT !.auto_assign_players = auto])

\* units in set_position: 0.001 for "m", 1.0 for "km"
UnitsFactor(units) == IF units = "m" THEN 1 ELSE Milli
FixMul(f, x) == (f * x) \div Milli

\* Ward.set_position; an absent argument is NoneV
set_position(w, x, y, lat, long, units) ==
    IF x # NoneV
    THEN (IF y = NoneV \/ lat # NoneV \/ long # NoneV
          THEN Raise(w, "ValueError")
          ELSE IF units \notin {"m", "km"} THEN Raise(w, "ValueError")
          ELSE Ok([w EXCEPT !.pos = [kind |-> "xy",
                                     a |-> FixMul(UnitsFactor(units), x),
                                     b |-> FixMul(UnitsFactor(units), y)]]))
    ELSE IF lat # NoneV
    THEN (IF long = NoneV \/ x # NoneV \/ y # NoneV
          THEN Raise(w, "ValueError")
          ELSE Ok([w EXCEPT !.pos = [kind |-> "latlong", a |-> lat, b |-> long]]))
    ELSE IF y # NoneV \/ long # NoneV THEN Raise(w, "ValueError")
    ELSE Ok(w)

is_resolved(w) ==
    /\ w.id # NoneV
    /\ \A k \in DOMAIN w.workers : isinstance_int(k)
    /\ \A k \in DOMAIN w.players : isinstance_int(k)

\* Ward.assert_sane: TRUE when no assertion fails
assert_sane(w) ==
    /\ w.id # NoneV /\ w.id > 0
    /\ Abs(SumValues(w.players) + w.player_total - One) <= SaneTol
    /\ SumValues(w.workers) = w.num_workers
\* Wards: "key in wards" and "wards.index(key)"; a Wards collection is a
\* function from the WardInfo of its members to their index
Wards_contains(wards, key) == key \in DOMAIN wards
Wards_index(wards, key) == wards[key]

\* resolve_loop that raises on a WardInfo key that is not in wards
RECURSIVE resolve_loop_missing_raises(_, _, _)
resolve_loop_missing_raises(d, keys, wards) ==
    IF keys = <<>> THEN [d |-> d, err |-> "none"]
    ELSE LET key == Head(keys) IN
         IF ~isinstance_int(key) /\ Wards_contains(wards, key)
         THEN LET idx == Wards_index(wards, key) IN
              IF Has(d, idx) THEN [d |-> d, err |-> "KeyError"]
              ELSE resolve_loop_missing_raises(Put(Del(d, key), idx, d[key]),
                                               Tail(keys), wards)
         ELSE IF ~isinstance_int(key) THEN [d |-> d, err |-> "KeyError"]
         ELSE resolve_loop_missing_raises(d, Tail(keys), wards)

\* one of the two loops of Ward.resolve over list(d.keys()); keys is the
\* order in which the dictionary yields its keys
RECURSIVE resolve_loop(_, _, _)
resolve_loop(d, keys, wards) ==
    IF keys = <<>> THEN [d |-> d, err |-> "none"]
    ELSE LET key == Head(keys) IN
         IF ~isinstance_int(key) /\ Wards_contains(wards, key)
         THEN LET idx == Wards_index(wards, key) IN
              IF Has(d, idx) THEN [d |-> d, err |-> "KeyError"]
              ELSE resolve_loop(Put(Del(d, key), idx, d[key]), Tail(keys), wards)
         ELSE resolve_loop(d, Tail(keys), wards)

Reverse(s) == [i \in 1..Len(s) |-> s[Len(s) + 1 - i]]
\* the insertion order of a dict is not part of the state: it is one of the
\* orders of its keys, chosen by the caller of resolve
KeyOrder(d, order) ==
    IF order = "asc" THEN SortedSeq(DOMAIN d) ELSE Reverse(SortedSeq(DOMAIN d))

resolve(w, wards, order) ==
    LET rw == resolve_loop(w.workers, KeyOrder(w.workers, order), wards) IN
    IF rw.err # "none" THEN Raise([w EXCEPT !.workers = rw.d], rw.err)
    ELSE LET rp == resolve_loop(w.players, KeyOrder(w.players, order), wards) IN
         [w |-> [w EXCEPT !.workers = rw.d, !.players = rp.d], err |-> rp.err]

\* Ward.get_worker_lists: (wards, pops), or KeyError on an unresolved key
get_worker_lists(w) ==
    LET keys == SortedSeq(DOMAIN w.workers) IN
    IF \E k \in DOMAIN w.workers : ~isinstance_int(k)
    THEN [wards |-> <<>>, pops |-> <<>>, err |-> "KeyError"]
    ELSE [wards |-> keys,
          pops |-> [i \in 1..Len(keys) |-> w.workers[keys[i]]],
          err |-> "none"]

\* get_player_lists that lists the own id without adding player_total
get_player_lists_no_residual(w, no_auto_assign) ==
    LET auto_assign == (~no_auto_assign) /\ w.auto_assign_players
        keyset == IF auto_assign /\ ~Has(w.players, w.id)
                  THEN (DOMAIN w.players) \cup {w.id} ELSE DOMAIN w.players
        keys == SortedSeq(keyset)
    IN IF \E k \in keyset : ~isinstance_int(k)
       THEN [wards |-> <<>>, weights |-> <<>>, err |-> "KeyError"]
       ELSE [wards |-> keys,
             weights |-> [i \in 1..Len(keys) |-> Get(w.players, keys[i], 0)],
             err |-> "none"]

\* get_player_lists that adds the own id only when player_total > 0
get_player_lists_residual_only(w, no_auto_assign) ==
    LET auto_assign == (~no_auto_assign) /\ w.auto_assign_players
        keyset == IF auto_assign /\ w.player_total > 0 /\ ~Has(w.players, w.id)
                  THEN (DOMAIN w.players) \cup {w.id} ELSE DOMAIN w.players
        keys == SortedSeq(keyset)
    IN IF \E k \in keyset : ~isinstance_int(k)
       THEN [wards |-> <<>>, weights |-> <<>>, err |-> "KeyError"]
       ELSE [wards |-> keys,
             weights |-> [i \in 1..Len(keys) |->
                            Get(w.players, keys[i], 0)
                            + (IF auto_assign /\ keys[i] = w.id
                               THEN w.player_total ELSE 0)],
             err |-> "none"]

\* Ward.get_player_lists: (wards, weights), or an error on a key that is
\* not an integer
get_player_lists(w, no_auto_assign) ==
    LET auto_assign == (~no_auto_assign) /\ w.auto_assign_players
        keyset == IF auto_assign /\ ~Has(w.players, w.id)
                  THEN (DOMAIN w.players) \cup {w.id} ELSE DOMAIN w.players
        keys == SortedSeq(keyset)
    IN IF \E k \in keyset : ~isinstance_int(k)
       THEN [wards |-> <<>>, weights |-> <<>>, err |-> "KeyError"]
       ELSE [wards |-> keys,
             weights |-> [i \in 1..Len(keys) |->
                            Get(w.players, keys[i], 0)
                            + (IF auto_assign /\ keys[i] = w.id
                               THEN w.player_total ELSE 0)],
             err |-> "none"]

\* WardInfo.to_data / WardInfo.from_data
WardInfo_to_data(info) == [fields |-> -info]
WardInfo_from_data(data) == -data.fields

\* Ward.to_data; a key that is absent from the dictionary has has_<key> FALSE
to_data(w) ==
    LET workers == get_worker_lists(w)
        players == get_player_lists(w, TRUE)
    IN IF workers.err # "none" THEN [data |-> <<>>, err |-> workers.err]
       ELSE IF players.err # "none" THEN [data |-> <<>>, err |-> players.err]
       ELSE [err |-> "none",
             data |-> [id |-> w.id,
                       has_position |-> w.pos.kind # "none",
                       position |-> w.pos,
                       info |-> WardInfo_to_data(w.info),
                       has_auto_assign_players |-> ~w.auto_assign_players,
                       auto_assign_players |-> FALSE,
                       num_workers |-> w.num_workers,
                       num_players |-> w.num_players,
                       has_workers |-> Len(workers.wards) > 0,
                       workers_destination |-> workers.wards,
                       workers_population |-> workers.pops,
                       has_players |-> Len(players.wards) > 0,
                       players_destination |-> players.wards,
                       players_weights |-> players.weights]]

\* "for d, p in zip(dests, vals): d = _as_positive_integer(d, False); ...;
\* dict[d] = p", TRUE when a conversion raises
ZipRaises(dests, vals) ==
    \E i \in 1..Len(dests) :
        _as_positive_integer_raises(dests[i], FALSE) \/ vals[i] < 0
RECURSIVE ZipDict(_, _, _)
ZipDict(d, dests, vals) ==
    IF dests = <<>> \/ vals = <<>> THEN d
    ELSE ZipDict(Put(d, Head(dests), Head(vals)), Tail(dests), Tail(vals))

\* Ward.from_data for a non-empty dictionary
from_data(data) ==
    LET w0 == NewWard(data.id, WardInfo_from_data(data.info), TRUE)
        pos == IF data.has_position THEN data.position
               ELSE [kind |-> "none", a |-> 0, b |-> 0]
        r1 == set_position(w0,
                  IF pos.kind = "xy" THEN pos.a ELSE NoneV,
                  IF pos.kind = "xy" THEN pos.b ELSE NoneV,
                  IF pos.kind = "latlong" THEN pos.a ELSE NoneV,
                  IF pos.kind = "latlong" THEN pos.b ELSE NoneV, "km")
        r2 == set_auto_assign_players(r1.w,
                  IF data.has_auto_assign_players
                  THEN data.auto_assign_players ELSE TRUE)
        r3 == set_num_players(r2.w, data.num_players)
        wd == IF data.has_workers THEN data.workers_destination ELSE <<>>
        wp == IF data.has_workers THEN data.workers_population ELSE <<>>
        workers == ZipDict(EmptyDict, wd, wp)
        pd == IF data.has_players THEN data.players_destination ELSE <<>>
        pw == IF data.has_players THEN data.players_weights ELSE <<>>
        players == ZipDict(EmptyDict, pd, pw)
        t == One - SumValues(players)
        w4 == [r3.w EXCEPT !.workers = workers,
                           !.num_workers = SumValues(workers),
                           !.players = players,
                           !.player_total = IF Abs(t) < Tiny THEN 0 ELSE t]
    IN IF data.id # NoneV /\ _as_positive_integer_raises(data.id, FALSE)
       THEN Raise(w0, "ValueError")
       ELSE IF r1.err # "none" THEN Raise(w0, r1.err)
       ELSE IF r3.err # "none" THEN Raise(w0, r3.err)
       ELSE IF ZipRaises(wd, wp) THEN Raise(w0, "ValueError")
       ELSE IF data.num_workers > 0 /\ SumValues(workers) # data.num_workers
       THEN Raise(w0, "AssertionError")
       ELSE IF ZipRaises(pd, pw) THEN Raise(w0, "ValueError")
       ELSE IF ~(Abs(t) < Tiny) /\ t < 0 THEN Raise(w0, "AssertionError")
       ELSE IF ~assert_sane(w4) THEN Raise(w0, "AssertionError")
       ELSE Ok(w4)

\* ------------------------------------------------------ advance_additional
\* Network.get_node_index for an integer index of a network of nnodes nodes
get_node_index(nnodes, index) ==
    IF index >= 1 /\ index <= nnodes
    THEN [index |-> index, err |-> "none"]
    ELSE [index |-> index, err |-> "KeyError"]

\* _load_additional_seeds for a single Network: a line "day count ward" of
\* three integer fields gives the seed (day, ward, count, None); a ward that
\* is not a node of the network raises
RECURSIVE _load_additional_seeds(_, _)
_load_additional_seeds(nnodes, lines) ==
    IF lines = <<>> THEN [seeds |-> <<>>, err |-> "none"]
    ELSE LET words == Head(lines)
             day == words[1]
             ward == get_node_index(nnodes, words[3])
             seed == words[2]
             rest == _load_additional_seeds(nnodes, Tail(lines))
         IN IF ward.err # "none" THEN [seeds |-> <<>>, err |-> ward.err]
            ELSE IF rest.err # "none" THEN rest
            ELSE [seeds |-> <<<<day, ward.index, seed, NoneV>>>> \o rest.seeds,
                  err |-> "none"]

\* seed_event that leaves play_suscept alone
seed_event_no_decrement(nnodes, st, seed) ==
    LET r == get_node_index(nnodes, seed[2])
        ward == r.index
        num == seed[3]
    IN IF r.err # "none" THEN [st EXCEPT !.err = r.err]
       ELSE IF st.play_suscept[ward] < num
       THEN [st EXCEPT !.warnings = @ + 1]
       ELSE [st EXCEPT !.play[0][ward] = @ + num]

\* seed_event that caps the seed at the susceptibles of the ward
seed_event_capped(nnodes, st, seed) ==
    LET r == get_node_index(nnodes, seed[2])
        ward == r.index
        num == seed[3]
        avail == st.play_suscept[ward]
    IN IF r.err # "none" THEN [st EXCEPT !.err = r.err]
       ELSE IF avail < num
       THEN [st EXCEPT !.warnings = @ + 1,
                       !.play_suscept[ward] = 0,
                       !.play[0][ward] = @ + avail]
       ELSE [st EXCEPT !.play_suscept[ward] = @ - num,
                       !.play[0][ward] = @ + num]

\* seed_event without the test of the susceptibles
seed_event_unchecked(nnodes, st, seed) ==
    LET r == get_node_index(nnodes, seed[2])
        ward == r.index
        num == seed[3]
    IN IF r.err # "none" THEN [st EXCEPT !.err = r.err]
       ELSE [st EXCEPT !.play_suscept[ward] = @ - num,
                       !.play[0][ward] = @ + num]

\* the body of "if seed[0] == population.day:" for a single Network; st is
\* the record of play_suscept, infections.play, the warnings printed and the
\* exception raised
seed_event(nnodes, st, seed) ==
    LET r == get_node_index(nnodes, seed[2])
        ward == r.index
        num == seed[3]
    IN IF r.err # "none" THEN [st EXCEPT !.err = r.err]
       ELSE IF st.play_suscept[ward] < num
       THEN [st EXCEPT !.warnings = @ + 1]
       ELSE [st EXCEPT !.play_suscept[ward] = @ - num,
                       !.play[0][ward] = @ + num]

\* the loop "for seed in additional_seeds" of advance_additional
RECURSIVE seed_loop(_, _, _, _)
seed_loop(nnodes, st, seeds, day) ==
    IF seeds = <<>> \/ st.err # "none" THEN st
    ELSE IF Head(seeds)[1] = day
    THEN seed_loop(nnodes, seed_event(nnodes, st, Head(seeds)), Tail(seeds), day)
    ELSE seed_loop(nnodes, st, Tail(seeds), day)

\* ----------------------------------- additional seeds: dates, demographics
\* the date of simulation day "day": a date equals no integer
Date(day) == -10 - day
\* the first word of a line: the text of an integer day, or of an ISO date
IntWord(n) == [kind |-> "int", value |-> n]
DateWord(day) == [kind |-> "date", value |-> day]
\* Interpret.day_or_date: an int for a day, a date for a date
day_or_date(word) ==
    IF word.kind = "int" THEN word.value ELSE Date(word.value)

\* the demographics of a Networks, and Demographics.get_index for a name
DemographicNames == <<"young", "old">>
Demographics_get_index(s) ==
    IF \E i \in 1..Len(DemographicNames) : DemographicNames[i] = s
    THEN [index |-> (CHOOSE i \in 1..Len(DemographicNames) :
                        DemographicNames[i] = s) - 1,
          err |-> "none"]
    ELSE [index |-> NoneV, err |-> "KeyError"]

\* _get_demographic(s, network) for a word s; is_Network says that network
\* is a Network
_get_demographic(s, is_Network) ==
    IF is_Network THEN [index |-> NoneV, err |-> "none"]
    ELSE IF s = "overall" THEN [index |-> NoneV, err |-> "none"]
    ELSE Demographics_get_index(s)

\* _get_ward(s, network, rng) for an integer word s
_get_ward(s, is_Networks, nnodes) ==
    IF is_Networks THEN [index |-> s, err |-> "TypeError"]
    ELSE get_node_index(nnodes, s)

\* the loop over the lines of _load_additional_seeds. A line is a record of
\* its words, demographic "" when it has three words. bound is what the
\* local name "network" is bound to: None for the object passed in, k for
\* subnets[k]; lookups lists the binding each ward was looked up in
RECURSIVE load_seed_lines(_, _, _, _)
load_seed_lines(is_networks, nnodes, bound, lines) ==
    IF lines = <<>> THEN [seeds |-> <<>>, lookups |-> <<>>, err |-> "none"]
    ELSE LET words == Head(lines)
             day == day_or_date(words.day)
             demographic ==
                 IF words.demographic = ""
                 THEN [index |-> NoneV, err |-> "none"]
                 ELSE _get_demographic(words.demographic,
                                       ~(is_networks /\ bound = NoneV))
             network == IF demographic.index # NoneV THEN demographic.index
                        ELSE bound
             ward == _get_ward(words.ward, is_networks /\ network = NoneV,
                               nnodes)
             seed == words.count
             rest == load_seed_lines(is_networks, nnodes, network,
                                     Tail(lines))
         IN IF demographic.err # "none"
            THEN [seeds |-> <<>>, lookups |-> <<>>, err |-> demographic.err]
            ELSE IF ward.err # "none"
            THEN [seeds |-> <<>>, lookups |-> <<>>, err |-> ward.err]
            ELSE IF rest.err # "none" THEN rest
            ELSE [seeds |-> <<<<day, ward.index, seed, demographic.index>>>>
                                \o rest.seeds,
                  lookups |-> <<network>> \o rest.lookups,
                  err |-> "none"]

\* the loop of advance_additional on a Network or a Networks. For a
\* Networks the first seed of the day rebinds network to the subnet and
\* reads infections.subinfs, an attribute Infections does not have
advance_additional(is_networks, nnodes, st, seeds, day) ==
    IF ~is_networks THEN seed_loop(nnodes, st, seeds, day)
    ELSE IF \E i \in 1..Len(seeds) : seeds[i][1] = day
    THEN [st EXCEPT !.err = "AttributeError"]
    ELSE st

\* ------------------------------------------------------------ get_functions
stages == <<"initialise", "setup", "foi", "infect", "analyse", "finalise">>
StageSet == {stages[i] : i \in 1..Len(stages)}

\* a plugin called with the keyword bundle kwargs returns its functions for
\* the stage kwargs.stage; returns is the list of functions of the plugin
PluginCall(returns, kwargs) ==
    [i \in 1..Len(returns) |-> <<returns[i], kwargs.stage>>]

\* get_functions that queries the iterator before the mover
get_functions_iterator_first(stage, plugins, bundle) ==
    IF stage \notin StageSet
    THEN [calls |-> <<>>, funcs |-> <<>>, err |-> "ValueError"]
    ELSE LET kwargs == [stage |-> stage, bundle |-> bundle] IN
         [calls |-> <<[plugin |-> "iterator", kwargs |-> kwargs],
                      [plugin |-> "mover", kwargs |-> kwargs],
                      [plugin |-> "mixer", kwargs |-> kwargs],
                      [plugin |-> "extractor", kwargs |-> kwargs]>>,
          funcs |-> PluginCall(plugins.iterator, kwargs)
                    \o PluginCall(plugins.mover, kwargs)
                    \o PluginCall(plugins.mixer, kwargs)
                    \o PluginCall(plugins.extractor, kwargs),
          err |-> "none"]

\* get_functions: the plugins queried, in order, the list returned and the
\* exception raised; plugins maps mover, iterator, mixer, extractor to the
\* functions each returns and bundle holds the arguments other than stage
get_functions(stage, plugins, bundle) ==
    IF stage \notin StageSet
    THEN [calls |-> <<>>, funcs |-> <<>>, err |-> "ValueError"]
    ELSE LET kwargs == [stage |-> stage, bundle |-> bundle] IN
         [calls |-> <<[plugin |-> "mover", kwargs |-> kwargs],
                      [plugin |-> "iterator", kwargs |-> kwargs],
                      [plugin |-> "mixer", kwargs |-> kwargs],
                      [plugin |-> "extractor", kwargs |-> kwargs]>>,
          funcs |-> PluginCall(plugins.mover, kwargs)
                    \o PluginCall(plugins.iterator, kwargs)
                    \o PluginCall(plugins.mixer, kwargs)
                    \o PluginCall(plugins.extractor, kwargs),
          err |-> "none"]

\* "funcs += get_functions(...)"
PlusEq(a, b) ==
    [calls |-> a.calls \o b.calls, funcs |-> a.funcs \o b.funcs, err |-> "none"]

\* get_model_loop_functions that asks for "infect" before "foi"
get_model_loop_functions_infect_first(plugins, bundle) ==
    LET f1 == get_functions("setup", plugins, bundle)
        f2 == PlusEq(f1, get_functions("infect", plugins, bundle))
        f3 == PlusEq(f2, get_functions("foi", plugins, bundle))
        f4 == PlusEq(f3, get_functions("analyse", plugins, bundle))
    IN f4

get_model_loop_functions(plugins, bundle) ==
    LET f1 == get_functions("setup", plugins, bundle)
        f2 == PlusEq(f1, get_functions("foi", plugins, bundle))
        f3 == PlusEq(f2, get_functions("infect", plugins, bundle))
        f4 == PlusEq(f3, get_functions("analyse", plugins, bundle))
    IN f4

get_initialise_functions(plugins, bundle) ==
    get_functions("initialise", plugins, bundle)

get_finalise_functions(plugins, bundle) ==
    get_functions("finalise", plugins, bundle)

\* ----------------------------------------------------------- iterate_custom
\* a function is the record of its being None and of the names of the
\* parameters of its signature
accepts_stage(func) == "stage" \in func.params

\* calling a function gives the record of the function called and of the
\* keyword arguments it was called with
Call(callee, kwargs) == [callee |-> callee, kwargs |-> kwargs]

\* iterate_custom that hands only the stages the function accepts to it
iterate_custom_accepts_only(custom_function, stage, bundle) ==
    LET kwargs == [stage |-> stage, bundle |-> bundle] IN
    IF custom_function.is_none THEN Call("iterate_default", kwargs)
    ELSE IF accepts_stage(custom_function)
    THEN Call("custom_function", kwargs)
    ELSE Call("iterate_default", kwargs)

iterate_custom(custom_function, stage, bundle) ==
    LET kwargs == [stage |-> stage, bundle |-> bundle] IN
    IF custom_function.is_none THEN Call("iterate_default", kwargs)
    ELSE IF stage = "infect" \/ accepts_stage(custom_function)
    THEN Call("custom_function", kwargs)
    ELSE Call("iterate_default", kwargs)

\* --------------------------------------------------------------- mix_custom
mixer_needs_setup(mixer) == "setup" \in mixer.params

Range(s) == {s[i] : i \in 1..Len(s)}

\* insert_core that appends the missing core functions
RECURSIVE insert_core_append(_, _, _)
insert_core_append(core_funcs, custom_funcs, i) ==
    IF i < 1 THEN custom_funcs
    ELSE IF core_funcs[i] \notin Range(custom_funcs)
    THEN insert_core_append(core_funcs, custom_funcs \o <<core_funcs[i]>>, i - 1)
    ELSE insert_core_append(core_funcs, custom_funcs, i - 1)

\* "for i in range(len(core_funcs)-1, -1, -1): if core_funcs[i] not in
\* custom_funcs: custom_funcs.insert(0, core_funcs[i])", from index i down
RECURSIVE insert_core(_, _, _)
insert_core(core_funcs, custom_funcs, i) ==
    IF i < 1 THEN custom_funcs
    ELSE IF core_funcs[i] \notin Range(custom_funcs)
    THEN insert_core(core_funcs, <<core_funcs[i]>> \o custom_funcs, i - 1)
    ELSE insert_core(core_funcs, custom_funcs, i - 1)

\* mix_custom: core_funcs is what merge_core returns; mixer is the custom
\* function, which returns None (returns_none) or the list object obj.  The
\* result is the list returned, the list object afterwards and whether the
\* custom function was called
mix_custom(mixer, obj, setup, core_funcs) ==
    LET called == (~setup) \/ mixer_needs_setup(mixer)
        custom_none == (~called) \/ mixer.returns_none
        custom_funcs == IF custom_none THEN <<>> ELSE obj
    IN IF Len(core_funcs) = 0
       THEN [funcs |-> custom_funcs, obj |-> obj, called |-> called]
       ELSE IF custom_none \/ Len(custom_funcs) = 0
       THEN [funcs |-> core_funcs, obj |-> obj, called |-> called]
       ELSE LET merged == insert_core(core_funcs, custom_funcs, Len(core_funcs))
            IN [funcs |-> merged, obj |-> merged, called |-> called]

\* ------------------------------------------------------------------ Networks
RatioDen == 2       \* a ratio r of a demographic stands for r / RatioDen
DevSeed == 15324    \* the seed forced by seed 0

\* a Network is the record of the populations of its nodes and of the
\* weights of its links; a demographic is the record of its work and play
\* ratios; a Demographics is a list of them, or None
\* Network.specialise: the share of the demographic in every node and link
Network_specialise(network, demographic) ==
    [pops |-> [w \in DOMAIN network.pops |->
                 (network.pops[w] * demographic.play_ratio) \div RatioDen],
     weights |-> [l \in DOMAIN network.weights |->
                    (network.weights[l] * demographic.work_ratio) \div RatioDen]]

\* Network.assert_sane: TRUE when no assertion fails
Network_assert_sane(network) ==
    /\ \A w \in DOMAIN network.pops : network.pops[w] >= 0
    /\ \A l \in DOMAIN network.weights : network.weights[l] >= 0

\* overall = None
NoNetwork == [pops |-> <<>>, weights |-> <<>>]
\* demographics = None
NoDemographics == [is_none |-> TRUE, list |-> <<>>]
\* Networks(): overall None, no subnets, demographics None
NoNetworks ==
    [overall |-> NoNetwork, subnets |-> <<>>, demographics |-> NoDemographics]

\* Networks.build: the Networks returned, or the exception raised
Networks_build(network, demographics) ==
    IF demographics.is_none \/ Len(demographics.list) < 2
    THEN [n |-> NoNetworks, err |-> "ValueError"]
    ELSE [n |-> [overall |-> network,
                 subnets |-> [i \in 1..Len(demographics.list) |->
                                Network_specialise(network,
                                                   demographics.list[i])],
                 demographics |-> demographics],
          err |-> "none"]

\* Networks.assert_sane: the exception raised, or "none"
Networks_assert_sane(n) ==
    IF n.overall # NoNetwork /\ ~Network_assert_sane(n.overall)
    THEN "AssertionError"
    ELSE IF \E i \in 1..Len(n.subnets) : ~Network_assert_sane(n.subnets[i])
    THEN "AssertionError"
    ELSE "none"

\* ------------------------------------------- Networks: calls on the networks
\* the calls a method of Networks makes: target 0 is the overall Network,
\* target i is subnets[i - 1]
NetworkCall(target, method) == [target |-> target, method |-> method]

\* Networks.reset_everything
Networks_reset_everything(n) ==
    (IF n.overall # NoNetwork
     THEN <<NetworkCall(0, "reset_everything")>> ELSE <<>>)
        \o [i \in 1..Len(n.subnets) |-> NetworkCall(i, "reset_everything")]

\* Networks.rescale_play_matrix
Networks_rescale_play_matrix(n) ==
    (IF n.overall # NoNetwork
     THEN <<NetworkCall(0, "reset_everything")>> ELSE <<>>)
        \o [i \in 1..Len(n.subnets) |->
               NetworkCall(i, "rescale_play_matrix")]

\* Networks.move_from_play_to_work
Networks_move_from_play_to_work(n) ==
    (IF n.overall # NoNetwork
     THEN <<NetworkCall(0, "move_from_play_to_work")>> ELSE <<>>)
        \o [i \in 1..Len(n.subnets) |->
               NetworkCall(i, "move_from_play_to_work")]

\* -------------------------------------------------------------- Networks.run
MaxSteps == 2       \* nsteps is None or 1..MaxSteps
\* the generator is a linear congruential one; its state is an integer
RngMod == 65537
RngMul == 75
RngInc == 74
rng_next(rng) == (RngMul * rng + RngInc) % RngMod

\* seed_ran_binomial: the state of the master generator; os_seed is the
\* seed the operating system gives when seed is None
seed_ran_binomial(seed, os_seed) ==
    IF seed = NoneV THEN os_seed % RngMod
    ELSE IF seed = 0 THEN DevSeed % RngMod
    ELSE seed % RngMod

\* ran_binomial(rng, p, n): the number drawn, in 0..n, and the generator
\* afterwards
ran_binomial(rng, p, n) ==
    [value |-> rng_next(rng) % (n + 1), rng |-> rng_next(rng)]

\* "for i in range(0, count): randnums.append(ran_binomial(rng, 0.5, 100))"
RECURSIVE draw_randnums(_, _)
draw_randnums(rng, count) ==
    IF count = 0 THEN [nums |-> <<>>, rng |-> rng]
    ELSE LET d == ran_binomial(rng, One \div 2, 100)
             rest == draw_randnums(d.rng, count - 1)
         IN [nums |-> <<d.value>> \o rest.nums, rng |-> rest.rng]

\* create_thread_generators: nthreads sub-seeds drawn from the master, one
\* generator seeded with each, and the master afterwards
RECURSIVE create_thread_generators(_, _)
create_thread_generators(rng, nthreads) ==
    IF nthreads = 0 THEN [rngs |-> <<>>, rng |-> rng]
    ELSE LET sub == rng_next(rng)
             rest == create_thread_generators(sub, nthreads - 1)
         IN [rngs |-> <<sub>> \o rest.rngs,
             rng |-> rest.rng]

\* one day of run_model: every thread draws the day's new infections from
\* its own generator, in thread order; the Population value of the day is
\* their sum
RECURSIVE run_model_day(_, _)
run_model_day(rngs, t) ==
    IF t > Len(rngs) THEN [total |-> 0, rngs |-> rngs]
    ELSE LET d == ran_binomial(rngs[t], One \div 2, 1)
             rest == run_model_day([rngs EXCEPT ![t] = d.rng], t + 1)
         IN [total |-> d.value + rest.total, rngs |-> rest.rngs]

\* run_model: the Population value of each day, for nsteps days
RECURSIVE run_model(_, _)
run_model(rngs, nsteps) ==
    IF nsteps = 0 THEN <<>>
    ELSE LET today == run_model_day(rngs, 1)
         IN <<today.total>> \o run_model(today.rngs, nsteps - 1)

\* the days a run lasts: nsteps, or the whole outbreak when nsteps is None
run_days(nsteps) == IF nsteps = NoneV THEN MaxSteps ELSE nsteps

\* Networks.run that creates the thread generators before it draws the
\* five numbers
Networks_run_threads_first(seed, nthreads, s, nsteps, os_seed, available) ==
    LET rng0 == IF seed = 0 THEN seed_ran_binomial(DevSeed, os_seed)
                ELSE seed_ran_binomial(seed, os_seed)
        nt == IF nthreads = NoneV THEN available ELSE nthreads
        tg == create_thread_generators(rng0, nt)
        draws == draw_randnums(tg.rng, 5)
    IN [seeded |-> rng0, randnums |-> draws.nums, nthreads |-> nt,
        rngs |-> tg.rngs, rng |-> draws.rng,
        run_model |-> [rngs |-> tg.rngs, s |-> s, nsteps |-> nsteps,
                       nthreads |-> nt],
        population |-> run_model(tg.rngs, run_days(nsteps))]

\* Networks.run that seeds the master generator from the operating system
\* whenever the seed is not 0
Networks_run_os_seeded(seed, nthreads, s, nsteps, os_seed, available) ==
    LET rng0 == IF seed = 0 THEN seed_ran_binomial(DevSeed, os_seed)
                ELSE seed_ran_binomial(NoneV, os_seed)
        draws == draw_randnums(rng0, 5)
        nt == IF nthreads = NoneV THEN available ELSE nthreads
        tg == create_thread_generators(draws.rng, nt)
    IN [seeded |-> rng0, randnums |-> draws.nums, nthreads |-> nt,
        rngs |-> tg.rngs, rng |-> tg.rng,
        run_model |-> [rngs |-> tg.rngs, s |-> s, nsteps |-> nsteps,
                       nthreads |-> nt],
        population |-> run_model(tg.rngs, run_days(nsteps))]

\* Networks.run and its call of run_model: the master generator as seeded,
\* the five numbers printed, the thread generators, the master generator
\* afterwards and the arguments of run_model; available is what
\* get_available_num_threads returns
Networks_run(seed, nthreads, s, nsteps, os_seed, available) ==
    LET rng0 == IF seed = 0 THEN seed_ran_binomial(DevSeed, os_seed)
                ELSE seed_ran_binomial(seed, os_seed)
        draws == draw_randnums(rng0, 5)
        nt == IF nthreads = NoneV THEN available ELSE nthreads
        tg == create_thread_generators(draws.rng, nt)
    IN [seeded |-> rng0, randnums |-> draws.nums, nthreads |-> nt,
        rngs |-> tg.rngs, rng |-> tg.rng,
        run_model |-> [rngs |-> tg.rngs, s |-> s, nsteps |-> nsteps,
                       nthreads |-> nt],
        population |-> run_model(tg.rngs, run_days(nsteps))]

\* no run yet
NoRun == [seed |-> NoneV, nthreads |-> NoneV, s |-> NoneV, nsteps |-> NoneV,
          calls |-> 0]
NoResult == [seeded |-> 0, randnums |-> <<>>, nthreads |-> 0, rngs |-> <<>>,
             rng |-> 0,
             run_model |-> [rngs |-> <<>>, s |-> NoneV, nsteps |-> NoneV,
                            nthreads |-> 0],
             population |-> <<>>]

\* ------------------------------------------------------ Disease, Parameters
MaxVal == 1         \* the values of beta and progress are 0..MaxVal
MaxLineNumber == 2  \* read_file is asked for lines -1..MaxLineNumber
Val == 0..MaxVal

\* Disease(beta=..., progress=..., too_ill_to_move=..., contrib_foi=...);
\* a Python list is a sequence, list[i] its element i + 1
Disease(beta, progress, too_ill_to_move, contrib_foi) ==
    [is_none |-> FALSE, beta |-> beta, progress |-> progress,
     too_ill_to_move |-> too_ill_to_move, contrib_foi |-> contrib_foi]
\* "disease_params: Disease = None"
NoDisease ==
    [is_none |-> TRUE, beta |-> <<>>, progress |-> <<>>,
     too_ill_to_move |-> <<>>, contrib_foi |-> <<>>]

\* Disease.__eq__
Disease_eq(self, other) ==
    /\ self.beta = other.beta
    /\ self.progress = other.progress
    /\ self.too_ill_to_move = other.too_ill_to_move
    /\ self.contrib_foi = other.contrib_foi

\* the disease files f"{disease}.json" of the disease_path: ncov with four
\* infection classes, lurgy with three
DiseaseData ==
    [ncov |-> [beta |-> <<0, 0, MaxVal, MaxVal>>,
               progress |-> <<MaxVal, MaxVal, MaxVal, 0>>,
               too_ill_to_move |-> <<0, 0, 0, 0>>,
               contrib_foi |-> <<MaxVal, MaxVal, MaxVal, MaxVal>>],
     lurgy |-> [beta |-> <<0, MaxVal, 0>>,
                progress |-> <<MaxVal, MaxVal, 0>>,
                too_ill_to_move |-> <<0, 0, 0>>,
                contrib_foi |-> <<MaxVal, MaxVal, MaxVal>>]]

\* Disease._validate raises
Disease_validate_raises(d) ==
    \/ Len(d.progress) # Len(d.beta)
    \/ Len(d.too_ill_to_move) # Len(d.beta)
    \/ Len(d.contrib_foi) # Len(d.beta)

\* Disease.load(disease): the Disease and the exception raised
Disease_load(disease) ==
    IF disease \notin DOMAIN DiseaseData
    THEN [d |-> NoDisease, err |-> "FileNotFoundError"]
    ELSE LET data == DiseaseData[disease]
             d == Disease(data.beta, data.progress, data.too_ill_to_move,
                          data.contrib_foi)
         IN IF Disease_validate_raises(d)
            THEN [d |-> NoDisease, err |-> "AssertionError"]
            ELSE [d |-> d, err |-> "none"]

\* Parameters(): disease_params None and the scalar defaults; disease is the
\* attribute set_disease assigns, "" while no such attribute exists
NewParameters ==
    [disease_params |-> NoDisease, disease |-> "",
     length_day |-> (7 * Milli) \div 10]

\* an argument of set_disease: the name of a disease or a Disease object
DiseaseName(name) == [is_name |-> TRUE, name |-> name, obj |-> NoDisease]
DiseaseObject(obj) == [is_name |-> FALSE, name |-> "", obj |-> obj]

\* Parameters.set_disease: print(disease) formats a Disease with __str__,
\* which reads self._model_path, an attribute no Disease has; the disease
\* goes to the attribute "disease"
set_disease(p, disease) ==
    IF ~disease.is_name
    THEN [p |-> p, err |-> "AttributeError"]
    ELSE [p |-> [p EXCEPT !.disease = disease.name], err |-> "none"]

\* "self.disease_params.beta[2] = vals[0]" and the like, in order: steps is
\* a sequence of <<field, index, value>>; an index past the end of the list
\* raises IndexError and keeps the assignments made before it
RECURSIVE assign_slots(_, _, _)
assign_slots(dp, steps, k) ==
    IF k > Len(steps) THEN [dp |-> dp, err |-> "none"]
    ELSE LET field == steps[k][1]
             index == steps[k][2]
             value == steps[k][3]
             list == IF field = "beta" THEN dp.beta ELSE dp.progress
         IN IF index >= Len(list) THEN [dp |-> dp, err |-> "IndexError"]
            ELSE assign_slots(
                     IF field = "beta"
                     THEN [dp EXCEPT !.beta[index + 1] = value]
                     ELSE [dp EXCEPT !.progress[index + 1] = value],
                     steps, k + 1)

\* the words of a line: a number n >= 0 is the text of that number,
\* BadWord a text that is no number, BlankWord the empty text
BadWord == -1
BlankWord == -2
\* float(word) raises
float_raises(word) == word < 0

\* FILE.readline().split(","): the words of the first line; at the end of
\* the file readline returns "", whose split is one empty word
readline_split(file) == IF Len(file) = 0 THEN <<BlankWord>> ELSE file[1]

\* Parameters.read_file that counts through the lines of the file up to
\* line_number
read_file_every_line(p, file, line_number) ==
    IF line_number < 0 \/ line_number >= Len(file)
    THEN [p |-> p, err |-> "ValueError"]
    ELSE LET words == file[line_number + 1]
         IN IF Len(words) # 5 THEN [p |-> p, err |-> "ValueError"]
            ELSE IF \E k \in 1..5 : float_raises(words[k])
            THEN [p |-> p, err |-> "ValueError"]
            ELSE IF p.disease_params.is_none
            THEN [p |-> p, err |-> "AttributeError"]
            ELSE LET r == assign_slots(p.disease_params,
                              <<<<"beta", 2, words[1]>>,
                                <<"beta", 3, words[2]>>,
                                <<"progress", 1, words[3]>>,
                                <<"progress", 2, words[4]>>,
                                <<"progress", 3, words[5]>> >>, 1)
                 IN [p |-> [p EXCEPT !.disease_params = r.dp],
                     err |-> r.err]

\* Parameters.read_file(filename, line_number): file is the content of the
\* file, a sequence of lines, each the sequence of its comma-separated words
read_file(p, file, line_number) ==
    LET i == 0
        words == readline_split(file)
    IN IF i = line_number
       THEN IF Len(words) # 5 THEN [p |-> p, err |-> "ValueError"]
            ELSE IF \E k \in 1..5 : float_raises(words[k])
            THEN [p |-> p, err |-> "ValueError"]
            ELSE IF p.disease_params.is_none
            THEN [p |-> p, err |-> "AttributeError"]
            ELSE LET r == assign_slots(p.disease_params,
                              <<<<"beta", 2, words[1]>>,
                                <<"beta", 3, words[2]>>,
                                <<"progress", 1, words[3]>>,
                                <<"progress", 2, words[4]>>,
                                <<"progress", 3, words[5]>> >>, 1)
                 IN [p |-> [p EXCEPT !.disease_params = r.dp],
                     err |-> r.err]
       ELSE [p |-> p, err |-> "ValueError"]

\* the names a VariableSet may hold, in the order they are applied, and the
\* slot each names: "beta[2]" is item 2 of disease_params.beta
VariableNames == <<"beta[2]", "progress[1]", "progress[3]">>
SlotOf ==
    [n \in {VariableNames[k] : k \in 1..Len(VariableNames)} |->
        CASE n = "beta[2]" -> <<"beta", 2>>
          [] n = "progress[1]" -> <<"progress", 1>>
          [] n = "progress[3]" -> <<"progress", 3>>]

\* the assignments a VariableSet asks for
RECURSIVE VariableSteps(_, _)
VariableSteps(variables, k) ==
    IF k > Len(VariableNames) THEN <<>>
    ELSE (IF VariableNames[k] \in DOMAIN variables
          THEN << <<SlotOf[VariableNames[k]][1], SlotOf[VariableNames[k]][2],
                    variables[VariableNames[k]]>> >>
          ELSE <<>>) \o VariableSteps(variables, k + 1)

\* Parameters.set_variables that adjusts the Parameters it is called on and
\* returns it
set_variables_in_place(p, variables) ==
    IF VariableSteps(variables, 1) = <<>>
    THEN [p |-> p, result |-> <<p>>, err |-> "none"]
    ELSE IF p.disease_params.is_none
    THEN [p |-> p, result |-> <<>>, err |-> "AttributeError"]
    ELSE LET r == assign_slots(p.disease_params,
                               VariableSteps(variables, 1), 1)
             q == [p EXCEPT !.disease_params = r.dp]
         IN IF r.err # "none"
            THEN [p |-> q, result |-> <<>>, err |-> r.err]
            ELSE [p |-> q, result |-> <<q>>, err |-> "none"]

\* Parameters.set_variables(variables): a deep copy of the Parameters with
\* the named slots of its disease_params substituted; p is the Parameters
\* it was called on, result holds the Parameters returned
set_variables(p, variables) ==
    IF VariableSteps(variables, 1) = <<>>
    THEN [p |-> p, result |-> <<p>>, err |-> "none"]
    ELSE IF p.disease_params.is_none
    THEN [p |-> p, result |-> <<>>, err |-> "AttributeError"]
    ELSE LET r == assign_slots(p.disease_params,
                               VariableSteps(variables, 1), 1)
         IN IF r.err # "none"
            THEN [p |-> p, result |-> <<>>, err |-> r.err]
            ELSE [p |-> p,
                  result |-> <<[p EXCEPT !.disease_params = r.dp]>>,
                  err |-> "none"]

\* no argument yet
NoParArg ==
    [disease |-> DiseaseName(""), variables |-> <<>>, file |-> <<>>,
     line_number |-> 0]

\* ------------------------------------------------- build_custom_iterator
\* an object found under a name: where it is defined, whether it has
\* __call__, and (for a member of an imported module) whether its
\* __module__ is that module
Object(origin, callable) ==
    [origin |-> origin, callable |-> callable, defined_here |-> TRUE]
NoObject == [origin |-> "none", callable |-> FALSE, defined_here |-> FALSE]

\* custom_function.split("::") for the names asked for
split_colons(function_name) ==
    CASE function_name = "iterate_x" -> <<"iterate_x">>
      [] function_name = "mod::iterate_x" -> <<"mod", "iterate_x">>
      [] function_name = "mod" -> <<"mod">>
\* name.startswith("iterate")
startswith_iterate(name) == name \in {"iterate_a", "iterate_x"}
\* inspect.getmembers lists the members sorted by name
MemberOrder == <<"helper", "iterate_a", "iterate_x">>

\* the last part of build_custom_iterator, for an object that is no string:
\* the wrapper around it, or ValueError when it has no __call__
build_wrapper(func) ==
    IF func.callable THEN [func |-> func, err |-> "none"]
    ELSE [func |-> NoObject, err |-> "ValueError"]

\* "func = getattr(namespace, custom_function);
\*  return build_custom_iterator(func)" inside try: the err is the
\* exception that "except Exception: pass" swallows
try_namespace(sys_modules, module_name, function_name) ==
    IF module_name \notin DOMAIN sys_modules
    THEN [func |-> NoObject, err |-> "KeyError"]
    ELSE IF function_name \notin DOMAIN sys_modules[module_name]
    THEN [func |-> NoObject, err |-> "AttributeError"]
    ELSE build_wrapper(sys_modules[module_name][function_name])

\* the functions of the module whose name starts with "iterate", in the
\* order of inspect.getmembers
RECURSIVE iterate_funcs(_, _)
iterate_funcs(module, k) ==
    IF k > Len(MemberOrder) THEN <<>>
    ELSE (IF /\ MemberOrder[k] \in DOMAIN module
             /\ startswith_iterate(MemberOrder[k])
             /\ module[MemberOrder[k]].callable
             /\ module[MemberOrder[k]].defined_here
          THEN <<module[MemberOrder[k]]>> ELSE <<>>)
         \o iterate_funcs(module, k + 1)

\* the import branch of build_custom_iterator: loadable maps the names
\* import_module can load to the members of the module
import_function(function_name, loadable) ==
    LET parts == split_colons(function_name)
        has_colons == Len(parts) > 1
        func_module == parts[1]
    IN IF func_module \notin DOMAIN loadable
       THEN [func |-> NoObject, err |-> "ImportError"]
       ELSE LET module == loadable[func_module]
            IN IF ~has_colons
               THEN (IF Len(iterate_funcs(module, 1)) > 0
                     THEN build_wrapper(iterate_funcs(module, 1)[1])
                     ELSE [func |-> NoObject, err |-> "ImportError"])
               ELSE (IF parts[Len(parts)] \in DOMAIN module
                     THEN build_wrapper(module[parts[Len(parts)]])
                     ELSE [func |-> NoObject, err |-> "ImportError"])

\* build_custom_iterator that looks in the caller's namespace right after
\* the bundled one
build_custom_iterator_caller_second(function_name, parent_name, sys_modules, loadable) ==
    LET bundled == try_namespace(sys_modules, "metawards.iterators",
                                 function_name)
        caller == try_namespace(sys_modules, parent_name, function_name)
        own == try_namespace(sys_modules,
                             "metawards.iterators._iterate_custom",
                             function_name)
        main == try_namespace(sys_modules, "__main__", function_name)
    IN IF bundled.err = "none" THEN bundled
       ELSE IF caller.err = "none" THEN caller
       ELSE IF own.err = "none" THEN own
       ELSE IF main.err = "none" THEN main
       ELSE import_function(function_name, loadable)

\* build_custom_iterator(custom_function, parent_name) for a string: the
\* object wrapped, or the exception raised; sys_modules maps the names of
\* the imported modules to their namespaces
build_custom_iterator(function_name, parent_name, sys_modules, loadable) ==
    LET bundled == try_namespace(sys_modules, "metawards.iterators",
                                 function_name)
        own == try_namespace(sys_modules,
                             "metawards.iterators._iterate_custom",
                             function_name)
        caller == try_namespace(sys_modules, parent_name, function_name)
        main == try_namespace(sys_modules, "__main__", function_name)
    IN IF bundled.err = "none" THEN bundled
       ELSE IF own.err = "none" THEN own
       ELSE IF caller.err = "none" THEN caller
       ELSE IF main.err = "none" THEN main
       ELSE import_function(function_name, loadable)

\* no call yet
NoBuildResult == [func |-> NoObject, err |-> "none"]
NoBuild ==
    [function_name |-> "", parent_name |-> "", sys_modules |-> <<>>,
     loadable |-> <<>>]

\* ================================================================ state
VARIABLES
    ward,              \* the Ward object: a record of its fields
    ward_err,          \* the exception the last Ward method raised, or "none"
    play_suscept,      \* network.nodes.play_suscept, by ward
    play_infections,   \* infections.play, by stage and ward
    work_infections,   \* infections.work, by stage and link
    seed_lines,        \* the lines of params.additional_seeds
    seeds_loaded,      \* hasattr(network, "_advance_additional_seeds")
    additional_seeds,  \* network._advance_additional_seeds
    day,               \* population.day
    advanced,          \* advance_additional has been called on this day
    seed_warnings,     \* the warnings printed by the last advance_additional
    seed_err,          \* the exception raised by the last advance_additional
    plugins,           \* the functions mover, iterator, mixer, extractor return
    plug_op,           \* the function of _get_functions.py called last
    plug_stage,        \* the stage it was called with
    plug_bundle,       \* the keyword arguments it was called with
    plug_calls,        \* the plugins it queried, in order
    plug_funcs,        \* the list it returned
    plug_err,          \* the exception it raised, or "none"
    custom_function,   \* the function wrapped by iterate_custom
    iter_stage,        \* the stage of the last iterate_custom call
    iter_bundle,       \* its other keyword arguments
    iter_result,       \* what it returned
    mixer,             \* the custom mixer wrapped by mix_custom
    mixer_list,        \* the list object the custom mixer returns
    mix_args,          \* setup and merge_core's list in the last mix_custom
    mix_before,        \* the list object before that call
    mix_result,        \* what that call returned
    networks,          \* the Networks object Networks.build returned last
    net_err,           \* the exception the last Networks.build raised
    net_sane,          \* how Networks.assert_sane ended on networks
    run_args,          \* the arguments of the last Networks.run
    run_result,        \* the generators, draws and run_model call of that run
    params,            \* the Parameters object p
    par_result,        \* what the last set_variables returned, <<>> if nothing
    par_op,            \* the last operation on p
    par_arg,           \* its argument
    par_err,           \* the exception it raised, or "none"
    build_args,        \* the arguments and surroundings of the last build_custom_iterator
    build_result,      \* the object it wrapped, or the exception it raised
    seed_is_networks,  \* the network seeded is a Networks
    sub_play_suscept,  \* play_suscept of the nodes of each subnet
    sub_plays,         \* infections.sub_plays: the play infections of each subnet
    seed_lookups,      \* what each ward of the seeds file was looked up in
    net_method,        \* the method of Networks called last, "none" before any
    net_calls          \* the calls it made on the overall Network and the subnets

wardvars == <<ward, ward_err>>
seedvars == <<play_suscept, play_infections, work_infections, seed_lines,
              seeds_loaded, additional_seeds, day, advanced, seed_warnings,
              seed_err>>
plugvars == <<plugins, plug_op, plug_stage, plug_bundle, plug_calls,
              plug_funcs, plug_err>>
itervars == <<custom_function, iter_stage, iter_bundle, iter_result>>
mixvars == <<mixer, mixer_list, mix_args, mix_before, mix_result>>
netvars == <<networks, net_err, net_sane>>
runvars == <<run_args, run_result>>
parvars == <<params, par_result, par_op, par_arg, par_err>>
buildvars == <<build_args, build_result>>
subvars == <<seed_is_networks, sub_play_suscept, sub_plays, seed_lookups>>
callvars == <<net_method, net_calls>>
vars == <<wardvars, seedvars, plugvars, itervars, mixvars, netvars, runvars,
          parvars,
          buildvars,
          subvars,
          callvars>>

\* -------------------------------------------------------------- Ward state

WardCall(r) ==
    /\ ward' = r.w
    /\ ward_err' = r.err
    /\ UNCHANGED <<seedvars, plugvars, itervars, mixvars, netvars, runvars,
                   parvars,
                   buildvars,
                   subvars,
                   callvars>>

NumberInputs == -1..MaxWorkers
WeightInputs == -1..(One + 2)
WardsInputs == UNION {[S -> 1..MaxId] : S \in SUBSET InfoKeys}
num_links(w) == Cardinality(DOMAIN w.workers) + Cardinality(DOMAIN w.players)

AddWorkers ==
    \E n \in NumberInputs, d \in DestInputs :
        LET r == add_workers(ward, n, d) IN
        /\ r.w.num_workers <= MaxWorkers
        /\ WardCall(r)
SubtractWorkers ==
    \E n \in NumberInputs, d \in DestInputs :
        WardCall(subtract_workers(ward, n, d))
SetNumWorkers ==
    \E n \in NumberInputs :
        LET r == set_num_workers(ward, n) IN
        /\ r.w.num_workers <= MaxWorkers
        /\ WardCall(r)
AddPlayerWeight ==
    \E x \in WeightInputs, d \in DestInputs :
        WardCall(add_player_weight(ward, x, d))
SubtractPlayerWeight ==
    \E x \in WeightInputs, d \in DestInputs :
        WardCall(subtract_player_weight(ward, x, d))
SetId ==
    \E id \in IdInputs : WardCall(set_id(ward, id))
Resolve ==
    \E wards \in WardsInputs, order \in {"asc", "desc"} :
        WardCall(resolve(ward, wards, order))
SetNumPlayers ==
    \E n \in -1..MaxPlayers : WardCall(set_num_players(ward, n))
SetAutoAssignPlayers ==
    \E b \in BOOLEAN : WardCall(set_auto_assign_players(ward, b))
PositionInputs ==
    {<<2000, 3000, NoneV, NoneV, "m">>, <<NoneV, NoneV, 51, 2, "m">>,
     <<2000, NoneV, NoneV, NoneV, "m">>, <<2000, 3000, NoneV, NoneV, "miles">>}
SetPosition ==
    \E p \in PositionInputs :
        WardCall(set_position(ward, p[1], p[2], p[3], p[4], p[5]))
\* the calls that add a link, on wards kept to at most MaxLinks links
AddWorkersLink == AddWorkers /\ num_links(ward') <= MaxLinks
AddPlayerWeightLink == AddPlayerWeight /\ num_links(ward') <= MaxLinks
SetNumWorkersLink == SetNumWorkers /\ num_links(ward') <= MaxLinks

\* -------------------------------------------------------------- seed state
NNodes == 1         \* network.nnodes
NLinks == 1         \* network.nlinks
NStages == 2        \* N_INF_CLASSES
MaxSuscept == 2     \* initial play_suscept of a ward is 0..MaxSuscept
MaxDay == 1         \* days are 0..MaxDay
MaxNum == 2         \* a line asks for 0..MaxNum infections
MaxLines == 2       \* lines of the additional-seeds file

SeedLine == (0..MaxDay) \X (0..MaxNum) \X (1..(NNodes + 1))
SeedFiles == UNION {[1..n -> SeedLine] : n \in 0..MaxLines}

\* advance_additional on a single Network, the first call loading the seeds
AdvanceAdditional ==
    /\ ~advanced
    /\ LET load == IF seeds_loaded
                   THEN [seeds |-> additional_seeds, err |-> "none"]
                   ELSE _load_additional_seeds(NNodes, seed_lines)
           st0 == [play_suscept |-> play_suscept, play |-> play_infections,
                   warnings |-> 0, err |-> "none"]
           st == seed_loop(NNodes, st0, load.seeds, day)
       IN IF load.err # "none"
          THEN /\ seed_err' = load.err
               /\ seed_warnings' = 0
               /\ UNCHANGED <<play_suscept, play_infections, seeds_loaded,
                              additional_seeds>>
          ELSE /\ seeds_loaded' = TRUE
               /\ additional_seeds' = load.seeds
               /\ play_suscept' = st.play_suscept
               /\ play_infections' = st.play
               /\ seed_warnings' = st.warnings
               /\ seed_err' = st.err
    /\ advanced' = TRUE
    /\ UNCHANGED <<work_infections, seed_lines, day>>
    /\ UNCHANGED <<wardvars, plugvars, itervars, mixvars, netvars, runvars,
                   parvars,
                   buildvars,
                   subvars,
                   callvars>>

\* the run loop moves to the next day once the day's advance has returned
NextDay ==
    /\ advanced
    /\ seed_err = "none"
    /\ day < MaxDay
    /\ day' = day + 1
    /\ advanced' = FALSE
    /\ UNCHANGED <<play_suscept, play_infections, work_infections, seed_lines,
                   seeds_loaded, additional_seeds, seed_warnings, seed_err>>
    /\ UNCHANGED <<wardvars, plugvars, itervars, mixvars, netvars, runvars,
                   parvars,
                   buildvars,
                   subvars,
                   callvars>>

\* ------------------------------------- seed state: dates and demographics
\* the lines of a seeds file: a day or a date, a count, a ward, and on a
\* line of four words "overall" or the name of a demographic
SeedWordLines ==
    [day : {IntWord(t) : t \in 0..MaxDay} \cup {DateWord(t) : t \in 0..MaxDay},
     count : 1..MaxNum, ward : 1..NNodes,
     demographic : {"", "overall"}
                      \cup {DemographicNames[i] :
                               i \in 1..Len(DemographicNames)}]
SeedWordFiles == UNION {[1..n -> SeedWordLines] : n \in 0..MaxLines}

\* advance_additional on a Network or a Networks, the first call loading
\* the seeds
AdvanceAdditionalNetworks ==
    /\ ~advanced
    /\ LET load == IF seeds_loaded
                   THEN [seeds |-> additional_seeds, lookups |-> seed_lookups,
                         err |-> "none"]
                   ELSE load_seed_lines(seed_is_networks, NNodes, NoneV,
                                        seed_lines)
           st0 == [play_suscept |-> play_suscept, play |-> play_infections,
                   warnings |-> 0, err |-> "none",
                   sub_play_suscept |-> sub_play_suscept,
                   sub_plays |-> sub_plays]
           st == advance_additional(seed_is_networks, NNodes, st0, load.seeds,
                                    day)
       IN IF load.err # "none"
          THEN /\ seed_err' = load.err
               /\ seed_warnings' = 0
               /\ UNCHANGED <<play_suscept, play_infections, seeds_loaded,
                              additional_seeds, sub_play_suscept, sub_plays,
                              seed_lookups>>
          ELSE /\ seeds_loaded' = TRUE
               /\ additional_seeds' = load.seeds
               /\ seed_lookups' = load.lookups
               /\ play_suscept' = st.play_suscept
               /\ play_infections' = st.play
               /\ sub_play_suscept' = st.sub_play_suscept
               /\ sub_plays' = st.sub_plays
               /\ seed_warnings' = st.warnings
               /\ seed_err' = st.err
    /\ advanced' = TRUE
    /\ UNCHANGED <<work_infections, seed_lines, day, seed_is_networks>>
    /\ UNCHANGED <<wardvars, plugvars, itervars, mixvars, netvars, runvars,
                   parvars, buildvars,
                   callvars>>

\* ------------------------------------------------------------ plugin state
FuncLists == {<<>>, <<"f">>, <<"g">>, <<"f", "g">>}
MaxThreads == 2     \* nthreads in the keyword bundle is 1..MaxThreads
Bundles == 1..MaxThreads

PlugCall(op, stage, bundle, r) ==
    /\ plug_op' = op
    /\ plug_stage' = stage
    /\ plug_bundle' = bundle
    /\ plug_calls' = r.calls
    /\ plug_funcs' = r.funcs
    /\ plug_err' = r.err
    /\ UNCHANGED plugins
    /\ UNCHANGED <<wardvars, seedvars, itervars, mixvars, netvars, runvars,
                   parvars,
                   buildvars,
                   subvars,
                   callvars>>

GetFunctions ==
    \E stage \in StageSet \cup {"prepare"}, b \in Bundles :
        PlugCall("get_functions", stage, b, get_functions(stage, plugins, b))
GetModelLoopFunctions ==
    \E b \in Bundles :
        PlugCall("get_model_loop_functions", "none", b,
                 get_model_loop_functions(plugins, b))
GetInitialiseFunctions ==
    \E b \in Bundles :
        PlugCall("get_initialise_functions", "none", b,
                 get_initialise_functions(plugins, b))
GetFinaliseFunctions ==
    \E b \in Bundles :
        PlugCall("get_finalise_functions", "none", b,
                 get_finalise_functions(plugins, b))

\* ---------------------------------------------------- iterate_custom state
ParamNames == {"stage", "network", "kwargs"}
CustomFunctions ==
    {[is_none |-> TRUE, params |-> {}]}
    \cup {[is_none |-> FALSE, params |-> P] : P \in SUBSET ParamNames}

IterateCustom ==
    \E stage \in StageSet, b \in Bundles :
        /\ iter_stage' = stage
        /\ iter_bundle' = b
        /\ iter_result' = iterate_custom(custom_function, stage, b)
        /\ UNCHANGED custom_function
        /\ UNCHANGED <<wardvars, seedvars, plugvars, mixvars, netvars, runvars,
                       parvars,
                       buildvars,
                       subvars,
                       callvars>>

\* -------------------------------------------------------- mix_custom state
MixFuncs == {"merge_a", "merge_b", "mix_c"}
MaxCore == 2        \* merge_core returns at most MaxCore functions
MaxCustom == 2      \* the custom mixer's list starts with at most MaxCustom
SeqsUpTo(S, n) == UNION {[1..k -> S] : k \in 0..n}
Injective(s) == \A i, j \in 1..Len(s) : s[i] = s[j] => i = j
CoreLists == {s \in SeqsUpTo(MixFuncs, MaxCore) : Injective(s)}
MixerParams == {{"kwargs"}, {"setup", "kwargs"}}

MixCustom ==
    \E setup \in BOOLEAN, core_funcs \in CoreLists :
        LET r == mix_custom(mixer, mixer_list, setup, core_funcs) IN
        /\ mix_args' = [setup |-> setup, core_funcs |-> core_funcs,
                        calls |-> IF r.called THEN 1 ELSE 0]
        /\ mix_before' = mixer_list
        /\ mixer_list' = r.obj
        /\ mix_result' = r.funcs
        /\ UNCHANGED mixer
        /\ UNCHANGED <<wardvars, seedvars, plugvars, itervars, netvars, runvars,
                       parvars,
                       buildvars,
                       subvars,
                       callvars>>

\* ----------------------------------------------------------- Networks state
MaxPop == 2         \* populations and link weights of the overall Network
MaxDemographics == 2    \* demographics handed to Networks.build
NetworkInputs ==
    [pops : [1..NNodes -> 0..MaxPop], weights : [1..NLinks -> 0..MaxPop]]
DemographicInputs == [work_ratio : 0..RatioDen, play_ratio : 0..RatioDen]
DemographicsInputs ==
    {NoDemographics}
    \cup {[is_none |-> FALSE, list |-> l] :
            l \in SeqsUpTo(DemographicInputs, MaxDemographics)}

\* networks = Networks.build(network, demographics), until one is returned
Build ==
    \E network \in NetworkInputs, demographics \in DemographicsInputs :
        LET r == Networks_build(network, demographics) IN
        /\ networks = NoNetworks
        /\ net_err' = r.err
        /\ networks' = IF r.err = "none" THEN r.n ELSE networks
        /\ net_sane' = IF r.err = "none" THEN "unchecked" ELSE net_sane
        /\ UNCHANGED <<wardvars, seedvars, plugvars, itervars, mixvars, runvars,
                       parvars,
                       buildvars,
                       subvars,
                       callvars>>

\* networks.assert_sane(profiler)
AssertSane ==
    /\ networks # NoNetworks
    /\ net_sane' = (IF Networks_assert_sane(networks) = "none" THEN "ok"
                    ELSE Networks_assert_sane(networks))
    /\ UNCHANGED <<networks, net_err>>
    /\ UNCHANGED <<wardvars, seedvars, plugvars, itervars, mixvars, runvars,
                   parvars,
                   buildvars,
                   subvars,
                   callvars>>

\* ---------------------------------------------- Networks: calls, the state
\* networks.reset_everything(), networks.rescale_play_matrix() or
\* networks.move_from_play_to_work() on the Networks built
NetworksMethod ==
    /\ networks # NoNetworks
    /\ \E method \in {"reset_everything", "rescale_play_matrix",
                      "move_from_play_to_work"} :
          /\ net_method' = method
          /\ net_calls' =
                 CASE method = "reset_everything" ->
                          Networks_reset_everything(networks)
                   [] method = "rescale_play_matrix" ->
                          Networks_rescale_play_matrix(networks)
                   [] method = "move_from_play_to_work" ->
                          Networks_move_from_play_to_work(networks)
    /\ UNCHANGED <<wardvars, seedvars, plugvars, itervars, mixvars, netvars,
                   runvars, parvars, buildvars, subvars>>

\* ------------------------------------------------------- Networks.run state
MaxSeed == 2        \* seeds given, and seeds of the operating system
SeedInputs == {NoneV, 0, DevSeed} \cup (1..MaxSeed)

\* networks.run(population, output_dir, seed, nsteps, s=s, nthreads=nthreads)
Run ==
    \E seed \in SeedInputs, nthreads \in {NoneV} \cup (1..MaxThreads),
       s \in {NoneV, 0}, nsteps \in {NoneV} \cup (1..MaxSteps),
       os_seed \in 1..MaxSeed, available \in 1..MaxThreads :
        /\ run_args' = [seed |-> seed, nthreads |-> nthreads, s |-> s,
                        nsteps |-> nsteps, calls |-> 1]
        /\ run_result' =
               Networks_run(seed, nthreads, s, nsteps, os_seed, available)
        /\ UNCHANGED <<wardvars, seedvars, plugvars, itervars, mixvars, netvars,
                       parvars,
                       buildvars,
                       subvars,
                       callvars>>

\* ------------------------------------------------------- Parameters state
DiseaseArgs ==
    {DiseaseName(n) : n \in {"ncov", "lurgy"}}
        \cup {DiseaseObject(Disease_load(n).d) : n \in {"ncov", "lurgy"}}

\* p.set_disease(disease)
SetDisease ==
    \E disease \in DiseaseArgs :
        /\ params' = set_disease(params, disease).p
        /\ par_err' = set_disease(params, disease).err
        /\ par_op' = "set_disease"
        /\ par_arg' = [NoParArg EXCEPT !.disease = disease]
        /\ par_result' = <<>>
        /\ UNCHANGED <<wardvars, seedvars, plugvars, itervars, mixvars,
                       netvars, runvars,
                       buildvars,
                       subvars,
                       callvars>>

\* VariableSet(l): values for some of the names
VariableSetInputs ==
    UNION {[S -> Val] :
              S \in SUBSET {VariableNames[k] : k \in 1..Len(VariableNames)}}

\* p2 = p.set_variables(variables)
SetVariables ==
    \E variables \in VariableSetInputs :
        /\ params' = set_variables(params, variables).p
        /\ par_result' = set_variables(params, variables).result
        /\ par_err' = set_variables(params, variables).err
        /\ par_op' = "set_variables"
        /\ par_arg' = [NoParArg EXCEPT !.variables = variables]
        /\ UNCHANGED <<wardvars, seedvars, plugvars, itervars, mixvars,
                       netvars, runvars,
                       buildvars,
                       subvars,
                       callvars>>

\* "p = p.set_variables(v1)": the Parameters returned takes the place of p
Rebind ==
    /\ par_op = "set_variables"
    /\ par_result # <<>>
    /\ params' = par_result[1]
    /\ par_result' = <<>>
    /\ par_op' = "rebind"
    /\ UNCHANGED <<par_arg, par_err>>
    /\ UNCHANGED <<wardvars, seedvars, plugvars, itervars, mixvars,
                   netvars, runvars,
                   buildvars,
                   subvars,
                   callvars>>

\* the lines of a parameter file: five numbers, five words one of which is
\* no number or empty, four numbers, six numbers, a blank line
NumberLines ==
    {[k \in 1..5 |-> (a * k + b) % (MaxVal + 1)] : a \in {0, 1}, b \in Val}
FileLines ==
    NumberLines
        \cup {[k \in 1..5 |-> IF k = bad THEN word ELSE MaxVal] :
                 bad \in 1..5, word \in {BadWord, BlankWord}}
        \cup {[k \in 1..4 |-> MaxVal], [k \in 1..6 |-> MaxVal],
              <<BlankWord>>}
\* the files: empty, one line, or two lines the second of which holds five
\* numbers
FileInputs ==
    {<<>>} \cup {<<l>> : l \in FileLines}
           \cup {<<l, [k \in 1..5 |-> MaxVal]>> : l \in FileLines}

\* p.read_file(filename, line_number)
ReadFile ==
    \E file \in FileInputs, line_number \in -1..MaxLineNumber :
        /\ params' = read_file(params, file, line_number).p
        /\ par_err' = read_file(params, file, line_number).err
        /\ par_op' = "read_file"
        /\ par_arg' = [NoParArg EXCEPT !.file = file,
                                       !.line_number = line_number]
        /\ par_result' = <<>>
        /\ UNCHANGED <<wardvars, seedvars, plugvars, itervars, mixvars,
                       netvars, runvars,
                       buildvars,
                       subvars,
                       callvars>>

\* ------------------------------------------------ build_custom_iterator state
\* what a namespace holds under the name asked for: nothing, a function, or
\* an object without __call__
NamespaceInputs(origin, names) ==
    {EmptyDict}
        \cup {[n \in {name} |-> Object(origin, callable)] :
                 name \in names, callable \in BOOLEAN}
\* sys.modules: the bundled package, the module of build_custom_iterator,
\* __main__ and, when it is imported, the module of the caller
SysModulesInputs ==
    {[m \in {"metawards.iterators", "metawards.iterators._iterate_custom",
             "__main__"} \cup callers |->
         CASE m = "metawards.iterators" -> bundled
           [] m = "metawards.iterators._iterate_custom" -> own
           [] m = "__main__" -> main
           [] m = "caller" -> caller] :
        bundled \in NamespaceInputs("bundled", {"iterate_x"}),
        own \in NamespaceInputs("own", {"iterate_x"}),
        main \in NamespaceInputs("main", {"iterate_x"}),
        caller \in NamespaceInputs("caller", {"iterate_x"}),
        callers \in {{}, {"caller"}}}
\* the modules import_module can load, with their members
LoadableInputs ==
    {EmptyDict}
        \cup {[m \in {name} |-> members] :
                 name \in {"iterate_x", "mod"},
                 members \in {EmptyDict,
                              [n \in {"helper"} |-> Object("module", TRUE)],
                              [n \in {"iterate_x"} |-> Object("module", TRUE)],
                              [n \in {"iterate_x"} |-> Object("module", FALSE)],
                              [n \in {"iterate_a", "iterate_x"} |->
                                   [Object("module", TRUE) EXCEPT
                                       !.defined_here = (n = "iterate_x")]]}}

\* build_custom_iterator(custom_function, parent_name)
BuildCustomIterator ==
    \E function_name \in {"iterate_x", "mod::iterate_x", "mod"},
       parent_name \in {"__main__", "caller"},
       sys_modules \in SysModulesInputs, loadable \in LoadableInputs :
        /\ build_args = NoBuild
        /\ build_args' = [function_name |-> function_name,
                          parent_name |-> parent_name,
                          sys_modules |-> sys_modules,
                          loadable |-> loadable]
        /\ build_result' = build_custom_iterator(function_name, parent_name,
                                                 sys_modules, loadable)
        /\ UNCHANGED <<wardvars, seedvars, plugvars, itervars, mixvars,
                       netvars, runvars, parvars,
                       subvars,
                       callvars>>

\* ======================================================== specifications
\* a new Ward(id=..., info=InfoA, auto_assign_players=...); the rest idle
InitWard ==
    /\ ward \in {NewWard(id, InfoA, auto) :
                    id \in {NoneV} \cup (1..MaxId), auto \in BOOLEAN}
    /\ ward_err = "none"
    /\ play_suscept = [w \in 1..NNodes |-> 0]
    /\ play_infections = [i \in 0..(NStages - 1) |-> [w \in 1..NNodes |-> 0]]
    /\ work_infections = [i \in 0..(NStages - 1) |-> [l \in 1..NLinks |-> 0]]
    /\ seed_lines = <<>>
    /\ seeds_loaded = FALSE
    /\ additional_seeds = <<>>
    /\ day = 0
    /\ advanced = FALSE
    /\ seed_warnings = 0
    /\ seed_err = "none"
    /\ plugins = [mover |-> <<>>, iterator |-> <<>>, mixer |-> <<>>,
                  extractor |-> <<>>]
    /\ plug_op = "none"
    /\ plug_stage = "none"
    /\ plug_bundle = 0
    /\ plug_calls = <<>>
    /\ plug_funcs = <<>>
    /\ plug_err = "none"
    /\ custom_function = [is_none |-> TRUE, params |-> {}]
    /\ iter_stage = "none"
    /\ iter_bundle = 0
    /\ iter_result = Call("none", [stage |-> "none", bundle |-> 0])
    /\ mixer = [params |-> {"kwargs"}, returns_none |-> FALSE]
    /\ mixer_list = <<>>
    /\ mix_args = [setup |-> FALSE, core_funcs |-> <<>>, calls |-> 0]
    /\ mix_before = <<>>
    /\ mix_result = <<>>
    /\ networks = NoNetworks
    /\ net_err = "none"
    /\ net_sane = "unchecked"
    /\ run_args = NoRun
    /\ run_result = NoResult
    /\ params = NewParameters
    /\ par_result = <<>>
    /\ par_op = "none"
    /\ par_arg = NoParArg
    /\ par_err = "none"
    /\ build_args = NoBuild
    /\ build_result = NoBuildResult
    /\ seed_is_networks = FALSE
    /\ sub_play_suscept = <<>>
    /\ sub_plays = <<>>
    /\ seed_lookups = <<>>
    /\ net_method = "none"
    /\ net_calls = <<>>

\* the player-weight operations on one Ward
PlayersNext == AddPlayerWeight \/ SubtractPlayerWeight
SpecPlayers ==
    /\ InitWard
    /\ [][PlayersNext]_vars

\* the worker operations, set_id and resolve on one Ward
WorkersNext ==
    AddWorkers \/ SubtractWorkers \/ SetNumWorkers \/ SetId \/ Resolve
SpecWorkers ==
    /\ InitWard
    /\ [][WorkersNext]_vars

\* every operation of the Ward builder, on wards of at most MaxLinks links
WardNext ==
    \/ AddWorkersLink \/ SubtractWorkers \/ SetNumWorkersLink
    \/ AddPlayerWeightLink \/ SubtractPlayerWeight
    \/ SetId \/ Resolve
    \/ SetNumPlayers \/ SetAutoAssignPlayers \/ SetPosition
SpecWard ==
    /\ InitWard
    /\ [][WardNext]_vars

\* the daily calls of advance_additional on a single Network
SeedNext == AdvanceAdditional \/ NextDay
\* a Network before the first day, its Infections just built, and the
\* lines of its additional-seeds file; the rest idle
InitSeed ==
    /\ ward = NewWard(1, InfoA, TRUE)
    /\ ward_err = "none"
    /\ play_suscept \in [1..NNodes -> 0..MaxSuscept]
    /\ play_infections = [i \in 0..(NStages - 1) |-> [w \in 1..NNodes |-> 0]]
    /\ work_infections = [i \in 0..(NStages - 1) |-> [l \in 1..NLinks |-> 0]]
    /\ seed_lines \in SeedFiles
    /\ seeds_loaded = FALSE
    /\ additional_seeds = <<>>
    /\ day = 0
    /\ advanced = FALSE
    /\ seed_warnings = 0
    /\ seed_err = "none"
    /\ plugins = [mover |-> <<>>, iterator |-> <<>>, mixer |-> <<>>,
                  extractor |-> <<>>]
    /\ plug_op = "none"
    /\ plug_stage = "none"
    /\ plug_bundle = 0
    /\ plug_calls = <<>>
    /\ plug_funcs = <<>>
    /\ plug_err = "none"
    /\ custom_function = [is_none |-> TRUE, params |-> {}]
    /\ iter_stage = "none"
    /\ iter_bundle = 0
    /\ iter_result = Call("none", [stage |-> "none", bundle |-> 0])
    /\ mixer = [params |-> {"kwargs"}, returns_none |-> FALSE]
    /\ mixer_list = <<>>
    /\ mix_args = [setup |-> FALSE, core_funcs |-> <<>>, calls |-> 0]
    /\ mix_before = <<>>
    /\ mix_result = <<>>
    /\ networks = NoNetworks
    /\ net_err = "none"
    /\ net_sane = "unchecked"
    /\ run_args = NoRun
    /\ run_result = NoResult
    /\ params = NewParameters
    /\ par_result = <<>>
    /\ par_op = "none"
    /\ par_arg = NoParArg
    /\ par_err = "none"
    /\ build_args = NoBuild
    /\ build_result = NoBuildResult
    /\ seed_is_networks = FALSE
    /\ sub_play_suscept = <<>>
    /\ sub_plays = <<>>
    /\ seed_lookups = <<>>
    /\ net_method = "none"
    /\ net_calls = <<>>
SpecSeed ==
    /\ InitSeed
    /\ [][SeedNext]_vars

\* the functions of utils/_get_functions.py over fixed plugins
StagesNext ==
    \/ GetFunctions \/ GetModelLoopFunctions
    \/ GetInitialiseFunctions \/ GetFinaliseFunctions
\* four plugins and no call made yet; the rest idle
InitStages ==
    /\ ward = NewWard(1, InfoA, TRUE)
    /\ ward_err = "none"
    /\ play_suscept = [w \in 1..NNodes |-> 0]
    /\ play_infections = [i \in 0..(NStages - 1) |-> [w \in 1..NNodes |-> 0]]
    /\ work_infections = [i \in 0..(NStages - 1) |-> [l \in 1..NLinks |-> 0]]
    /\ seed_lines = <<>>
    /\ seeds_loaded = FALSE
    /\ additional_seeds = <<>>
    /\ day = 0
    /\ advanced = FALSE
    /\ seed_warnings = 0
    /\ seed_err = "none"
    /\ plugins \in [mover : FuncLists, iterator : FuncLists,
                    mixer : FuncLists, extractor : FuncLists]
    /\ plug_op = "none"
    /\ plug_stage = "none"
    /\ plug_bundle = 0
    /\ plug_calls = <<>>
    /\ plug_funcs = <<>>
    /\ plug_err = "none"
    /\ custom_function = [is_none |-> TRUE, params |-> {}]
    /\ iter_stage = "none"
    /\ iter_bundle = 0
    /\ iter_result = Call("none", [stage |-> "none", bundle |-> 0])
    /\ mixer = [params |-> {"kwargs"}, returns_none |-> FALSE]
    /\ mixer_list = <<>>
    /\ mix_args = [setup |-> FALSE, core_funcs |-> <<>>, calls |-> 0]
    /\ mix_before = <<>>
    /\ mix_result = <<>>
    /\ networks = NoNetworks
    /\ net_err = "none"
    /\ net_sane = "unchecked"
    /\ run_args = NoRun
    /\ run_result = NoResult
    /\ params = NewParameters
    /\ par_result = <<>>
    /\ par_op = "none"
    /\ par_arg = NoParArg
    /\ par_err = "none"
    /\ build_args = NoBuild
    /\ build_result = NoBuildResult
    /\ seed_is_networks = FALSE
    /\ sub_play_suscept = <<>>
    /\ sub_plays = <<>>
    /\ seed_lookups = <<>>
    /\ net_method = "none"
    /\ net_calls = <<>>
SpecStages ==
    /\ InitStages
    /\ [][StagesNext]_vars

\* iterate_custom over a fixed custom function
IterNext == IterateCustom
\* a custom function wrapped by build_custom_iterator; the rest idle
InitIterate ==
    /\ ward = NewWard(1, InfoA, TRUE)
    /\ ward_err = "none"
    /\ play_suscept = [w \in 1..NNodes |-> 0]
    /\ play_infections = [i \in 0..(NStages - 1) |-> [w \in 1..NNodes |-> 0]]
    /\ work_infections = [i \in 0..(NStages - 1) |-> [l \in 1..NLinks |-> 0]]
    /\ seed_lines = <<>>
    /\ seeds_loaded = FALSE
    /\ additional_seeds = <<>>
    /\ day = 0
    /\ advanced = FALSE
    /\ seed_warnings = 0
    /\ seed_err = "none"
    /\ plugins = [mover |-> <<>>, iterator |-> <<>>, mixer |-> <<>>,
                  extractor |-> <<>>]
    /\ plug_op = "none"
    /\ plug_stage = "none"
    /\ plug_bundle = 0
    /\ plug_calls = <<>>
    /\ plug_funcs = <<>>
    /\ plug_err = "none"
    /\ custom_function \in CustomFunctions
    /\ iter_stage = "none"
    /\ iter_bundle = 0
    /\ iter_result = Call("none", [stage |-> "none", bundle |-> 0])
    /\ mixer = [params |-> {"kwargs"}, returns_none |-> FALSE]
    /\ mixer_list = <<>>
    /\ mix_args = [setup |-> FALSE, core_funcs |-> <<>>, calls |-> 0]
    /\ mix_before = <<>>
    /\ mix_result = <<>>
    /\ networks = NoNetworks
    /\ net_err = "none"
    /\ net_sane = "unchecked"
    /\ run_args = NoRun
    /\ run_result = NoResult
    /\ params = NewParameters
    /\ par_result = <<>>
    /\ par_op = "none"
    /\ par_arg = NoParArg
    /\ par_err = "none"
    /\ build_args = NoBuild
    /\ build_result = NoBuildResult
    /\ seed_is_networks = FALSE
    /\ sub_play_suscept = <<>>
    /\ sub_plays = <<>>
    /\ seed_lookups = <<>>
    /\ net_method = "none"
    /\ net_calls = <<>>
SpecIterate ==
    /\ InitIterate
    /\ [][IterNext]_vars

\* mix_custom over a custom mixer that returns the same list object
MixNext == MixCustom
\* a custom mixer wrapped by build_custom_mixer and its list; the rest idle
InitMix ==
    /\ ward = NewWard(1, InfoA, TRUE)
    /\ ward_err = "none"
    /\ play_suscept = [w \in 1..NNodes |-> 0]
    /\ play_infections = [i \in 0..(NStages - 1) |-> [w \in 1..NNodes |-> 0]]
    /\ work_infections = [i \in 0..(NStages - 1) |-> [l \in 1..NLinks |-> 0]]
    /\ seed_lines = <<>>
    /\ seeds_loaded = FALSE
    /\ additional_seeds = <<>>
    /\ day = 0
    /\ advanced = FALSE
    /\ seed_warnings = 0
    /\ seed_err = "none"
    /\ plugins = [mover |-> <<>>, iterator |-> <<>>, mixer |-> <<>>,
                  extractor |-> <<>>]
    /\ plug_op = "none"
    /\ plug_stage = "none"
    /\ plug_bundle = 0
    /\ plug_calls = <<>>
    /\ plug_funcs = <<>>
    /\ plug_err = "none"
    /\ custom_function = [is_none |-> TRUE, params |-> {}]
    /\ iter_stage = "none"
    /\ iter_bundle = 0
    /\ iter_result = Call("none", [stage |-> "none", bundle |-> 0])
    /\ mixer \in [params : MixerParams, returns_none : BOOLEAN]
    /\ mixer_list \in SeqsUpTo(MixFuncs, MaxCustom)
    /\ mix_args = [setup |-> FALSE, core_funcs |-> <<>>, calls |-> 0]
    /\ mix_before = <<>>
    /\ mix_result = <<>>
    /\ networks = NoNetworks
    /\ net_err = "none"
    /\ net_sane = "unchecked"
    /\ run_args = NoRun
    /\ run_result = NoResult
    /\ params = NewParameters
    /\ par_result = <<>>
    /\ par_op = "none"
    /\ par_arg = NoParArg
    /\ par_err = "none"
    /\ build_args = NoBuild
    /\ build_result = NoBuildResult
    /\ seed_is_networks = FALSE
    /\ sub_play_suscept = <<>>
    /\ sub_plays = <<>>
    /\ seed_lookups = <<>>
    /\ net_method = "none"
    /\ net_calls = <<>>
SpecMix ==
    /\ InitMix
    /\ [][MixNext]_vars

\* Networks.build and Networks.assert_sane
NetworksNext == Build \/ AssertSane
\* no Networks built yet; the rest idle
InitNetworks ==
    /\ ward = NewWard(1, InfoA, TRUE)
    /\ ward_err = "none"
    /\ play_suscept = [w \in 1..NNodes |-> 0]
    /\ play_infections = [i \in 0..(NStages - 1) |-> [w \in 1..NNodes |-> 0]]
    /\ work_infections = [i \in 0..(NStages - 1) |-> [l \in 1..NLinks |-> 0]]
    /\ seed_lines = <<>>
    /\ seeds_loaded = FALSE
    /\ additional_seeds = <<>>
    /\ day = 0
    /\ advanced = FALSE
    /\ seed_warnings = 0
    /\ seed_err = "none"
    /\ plugins = [mover |-> <<>>, iterator |-> <<>>, mixer |-> <<>>,
                  extractor |-> <<>>]
    /\ plug_op = "none"
    /\ plug_stage = "none"
    /\ plug_bundle = 0
    /\ plug_calls = <<>>
    /\ plug_funcs = <<>>
    /\ plug_err = "none"
    /\ custom_function = [is_none |-> TRUE, params |-> {}]
    /\ iter_stage = "none"
    /\ iter_bundle = 0
    /\ iter_result = Call("none", [stage |-> "none", bundle |-> 0])
    /\ mixer = [params |-> {"kwargs"}, returns_none |-> FALSE]
    /\ mixer_list = <<>>
    /\ mix_args = [setup |-> FALSE, core_funcs |-> <<>>, calls |-> 0]
    /\ mix_before = <<>>
    /\ mix_result = <<>>
    /\ networks = NoNetworks
    /\ net_err = "none"
    /\ net_sane = "unchecked"
    /\ run_args = NoRun
    /\ run_result = NoResult
    /\ params = NewParameters
    /\ par_result = <<>>
    /\ par_op = "none"
    /\ par_arg = NoParArg
    /\ par_err = "none"
    /\ build_args = NoBuild
    /\ build_result = NoBuildResult
    /\ seed_is_networks = FALSE
    /\ sub_play_suscept = <<>>
    /\ sub_plays = <<>>
    /\ seed_lookups = <<>>
    /\ net_method = "none"
    /\ net_calls = <<>>
SpecNetworks ==
    /\ InitNetworks
    /\ [][NetworksNext]_vars

\* the runs of Networks.run
RunNext == Run
\* no run yet; the rest idle
InitRun ==
    /\ ward = NewWard(1, InfoA, TRUE)
    /\ ward_err = "none"
    /\ play_suscept = [w \in 1..NNodes |-> 0]
    /\ play_infections = [i \in 0..(NStages - 1) |-> [w \in 1..NNodes |-> 0]]
    /\ work_infections = [i \in 0..(NStages - 1) |-> [l \in 1..NLinks |-> 0]]
    /\ seed_lines = <<>>
    /\ seeds_loaded = FALSE
    /\ additional_seeds = <<>>
    /\ day = 0
    /\ advanced = FALSE
    /\ seed_warnings = 0
    /\ seed_err = "none"
    /\ plugins = [mover |-> <<>>, iterator |-> <<>>, mixer |-> <<>>,
                  extractor |-> <<>>]
    /\ plug_op = "none"
    /\ plug_stage = "none"
    /\ plug_bundle = 0
    /\ plug_calls = <<>>
    /\ plug_funcs = <<>>
    /\ plug_err = "none"
    /\ custom_function = [is_none |-> TRUE, params |-> {}]
    /\ iter_stage = "none"
    /\ iter_bundle = 0
    /\ iter_result = Call("none", [stage |-> "none", bundle |-> 0])
    /\ mixer = [params |-> {"kwargs"}, returns_none |-> FALSE]
    /\ mixer_list = <<>>
    /\ mix_args = [setup |-> FALSE, core_funcs |-> <<>>, calls |-> 0]
    /\ mix_before = <<>>
    /\ mix_result = <<>>
    /\ networks = NoNetworks
    /\ net_err = "none"
    /\ net_sane = "unchecked"
    /\ run_args = NoRun
    /\ run_result = NoResult
    /\ params = NewParameters
    /\ par_result = <<>>
    /\ par_op = "none"
    /\ par_arg = NoParArg
    /\ par_err = "none"
    /\ build_args = NoBuild
    /\ build_result = NoBuildResult
    /\ seed_is_networks = FALSE
    /\ sub_play_suscept = <<>>
    /\ sub_plays = <<>>
    /\ seed_lookups = <<>>
    /\ net_method = "none"
    /\ net_calls = <<>>
SpecRun ==
    /\ InitRun
    /\ [][RunNext]_vars

\* a Parameters whose disease_params is None or was assigned a Disease
InitParams ==
    /\ ward = NewWard(1, InfoA, TRUE)
    /\ ward_err = "none"
    /\ play_suscept = [w \in 1..NNodes |-> 0]
    /\ play_infections = [i \in 0..(NStages - 1) |-> [w \in 1..NNodes |-> 0]]
    /\ work_infections = [i \in 0..(NStages - 1) |-> [l \in 1..NLinks |-> 0]]
    /\ seed_lines = <<>>
    /\ seeds_loaded = FALSE
    /\ additional_seeds = <<>>
    /\ day = 0
    /\ advanced = FALSE
    /\ seed_warnings = 0
    /\ seed_err = "none"
    /\ plugins = [mover |-> <<>>, iterator |-> <<>>, mixer |-> <<>>,
                  extractor |-> <<>>]
    /\ plug_op = "none"
    /\ plug_stage = "none"
    /\ plug_bundle = 0
    /\ plug_calls = <<>>
    /\ plug_funcs = <<>>
    /\ plug_err = "none"
    /\ custom_function = [is_none |-> TRUE, params |-> {}]
    /\ iter_stage = "none"
    /\ iter_bundle = 0
    /\ iter_result = Call("none", [stage |-> "none", bundle |-> 0])
    /\ mixer = [params |-> {"kwargs"}, returns_none |-> FALSE]
    /\ mixer_list = <<>>
    /\ mix_args = [setup |-> FALSE, core_funcs |-> <<>>, calls |-> 0]
    /\ mix_before = <<>>
    /\ mix_result = <<>>
    /\ networks = NoNetworks
    /\ net_err = "none"
    /\ net_sane = "unchecked"
    /\ run_args = NoRun
    /\ run_result = NoResult
    /\ params \in {[NewParameters EXCEPT !.disease_params = d] :
                     d \in {NoDisease, Disease_load("ncov").d,
                            Disease_load("lurgy").d}}
    /\ par_result = <<>>
    /\ par_op = "none"
    /\ par_arg = NoParArg
    /\ par_err = "none"
    /\ build_args = NoBuild
    /\ build_result = NoBuildResult
    /\ seed_is_networks = FALSE
    /\ sub_play_suscept = <<>>
    /\ sub_plays = <<>>
    /\ seed_lookups = <<>>
    /\ net_method = "none"
    /\ net_calls = <<>>
ParamsNext == SetDisease \/ SetVariables \/ Rebind
SpecParams ==
    /\ InitParams
    /\ [][ParamsNext]_vars

ReadFileNext == ReadFile
SpecReadFile ==
    /\ InitParams
    /\ [][ReadFileNext]_vars

\* no plugin name resolved yet
InitBuild ==
    /\ ward = NewWard(1, InfoA, TRUE)
    /\ ward_err = "none"
    /\ play_suscept = [w \in 1..NNodes |-> 0]
    /\ play_infections = [i \in 0..(NStages - 1) |-> [w \in 1..NNodes |-> 0]]
    /\ work_infections = [i \in 0..(NStages - 1) |-> [l \in 1..NLinks |-> 0]]
    /\ seed_lines = <<>>
    /\ seeds_loaded = FALSE
    /\ additional_seeds = <<>>
    /\ day = 0
    /\ advanced = FALSE
    /\ seed_warnings = 0
    /\ seed_err = "none"
    /\ plugins = [mover |-> <<>>, iterator |-> <<>>, mixer |-> <<>>,
                  extractor |-> <<>>]
    /\ plug_op = "none"
    /\ plug_stage = "none"
    /\ plug_bundle = 0
    /\ plug_calls = <<>>
    /\ plug_funcs = <<>>
    /\ plug_err = "none"
    /\ custom_function = [is_none |-> TRUE, params |-> {}]
    /\ iter_stage = "none"
    /\ iter_bundle = 0
    /\ iter_result = Call("none", [stage |-> "none", bundle |-> 0])
    /\ mixer = [params |-> {"kwargs"}, returns_none |-> FALSE]
    /\ mixer_list = <<>>
    /\ mix_args = [setup |-> FALSE, core_funcs |-> <<>>, calls |-> 0]
    /\ mix_before = <<>>
    /\ mix_result = <<>>
    /\ networks = NoNetworks
    /\ net_err = "none"
    /\ net_sane = "unchecked"
    /\ run_args = NoRun
    /\ run_result = NoResult
    /\ params = NewParameters
    /\ par_result = <<>>
    /\ par_op = "none"
    /\ par_arg = NoParArg
    /\ par_err = "none"
    /\ build_args = NoBuild
    /\ build_result = NoBuildResult
    /\ seed_is_networks = FALSE
    /\ sub_play_suscept = <<>>
    /\ sub_plays = <<>>
    /\ seed_lookups = <<>>
    /\ net_method = "none"
    /\ net_calls = <<>>
BuildNext == BuildCustomIterator
SpecBuild ==
    /\ InitBuild
    /\ [][BuildNext]_vars

\* a Network, or a Networks of two demographics, with its seeds file
InitSeedNetworks ==
    /\ ward = NewWard(1, InfoA, TRUE)
    /\ ward_err = "none"
    /\ play_suscept \in [1..NNodes -> 0..MaxSuscept]
    /\ play_infections = [i \in 0..(NStages - 1) |-> [w \in 1..NNodes |-> 0]]
    /\ work_infections = [i \in 0..(NStages - 1) |-> [l \in 1..NLinks |-> 0]]
    /\ seed_lines \in SeedWordFiles
    /\ seeds_loaded = FALSE
    /\ additional_seeds = <<>>
    /\ day = 0
    /\ advanced = FALSE
    /\ seed_warnings = 0
    /\ seed_err = "none"
    /\ plugins = [mover |-> <<>>, iterator |-> <<>>, mixer |-> <<>>,
                  extractor |-> <<>>]
    /\ plug_op = "none"
    /\ plug_stage = "none"
    /\ plug_bundle = 0
    /\ plug_calls = <<>>
    /\ plug_funcs = <<>>
    /\ plug_err = "none"
    /\ custom_function = [is_none |-> TRUE, params |-> {}]
    /\ iter_stage = "none"
    /\ iter_bundle = 0
    /\ iter_result = Call("none", [stage |-> "none", bundle |-> 0])
    /\ mixer = [params |-> {"kwargs"}, returns_none |-> FALSE]
    /\ mixer_list = <<>>
    /\ mix_args = [setup |-> FALSE, core_funcs |-> <<>>, calls |-> 0]
    /\ mix_before = <<>>
    /\ mix_result = <<>>
    /\ networks = NoNetworks
    /\ net_err = "none"
    /\ net_sane = "unchecked"
    /\ run_args = NoRun
    /\ run_result = NoResult
    /\ params = NewParameters
    /\ par_result = <<>>
    /\ par_op = "none"
    /\ par_arg = NoParArg
    /\ par_err = "none"
    /\ build_args = NoBuild
    /\ build_result = NoBuildResult
    /\ seed_is_networks \in BOOLEAN
    /\ sub_play_suscept \in IF seed_is_networks
                           THEN {s \in [1..Len(DemographicNames) ->
                                           [1..NNodes -> 0..MaxSuscept]] :
                                    \A w \in 1..NNodes :
                                        SumSeq([i \in 1..Len(DemographicNames)
                                                   |-> s[i][w]])
                                            = play_suscept[w]}
                           ELSE {<<>>}
    /\ sub_plays = IF seed_is_networks
                   THEN [i \in 1..Len(DemographicNames) |->
                            [k \in 0..(NStages - 1) |->
                                [w \in 1..NNodes |-> 0]]]
                   ELSE <<>>
    /\ seed_lookups = <<>>
    /\ net_method = "none"
    /\ net_calls = <<>>
SeedNetworksNext == AdvanceAdditionalNetworks \/ NextDay
SpecSeedNetworks ==
    /\ InitSeedNetworks
    /\ [][SeedNetworksNext]_vars

NetworkCallsNext == Build \/ NetworksMethod
SpecNetworkCalls ==
    /\ InitNetworks
    /\ [][NetworkCallsNext]_vars

\* ================================================================ claims
\* C1: in every state reached by add_player_weight and
\* subtract_player_weight calls, the sum of the player weights plus
\* player_total differs from 1.0 by at most 1e-10.
C1_PlayerSum ==
    Abs(SumValues(ward.players) + ward.player_total - One) <= Tiny

\* C2: in every state reached by add_workers, subtract_workers,
\* set_num_workers, set_id and resolve calls, failed calls included,
\* num_workers is the sum of the counts of the workers map, and the
\* populations get_worker_lists returns sum to num_workers.
C2_NumWorkers ==
    /\ ward.num_workers = SumValues(ward.workers)
    /\ LET l == get_worker_lists(ward) IN
       l.err = "none" => SumSeq(l.pops) = ward.num_workers

\* a call has just raised on a resolved ward that has workers on two links
C2_Witness ==
    /\ ward_err # "none"
    /\ Cardinality(DOMAIN ward.workers) >= 2
    /\ ward.num_workers > 0
    /\ get_worker_lists(ward).err = "none"

\* the step is a call of advance_additional
AdvanceStep == ~advanced /\ advanced'
\* the seeds the call works on that are scheduled for its day
Matching == {i \in 1..Len(additional_seeds') : additional_seeds'[i][1] = day}

C4_Capped ==
    [][AdvanceStep =>
        \A i \in Matching :
            LET w == additional_seeds'[i][2]
                n == additional_seeds'[i][3]
            IN (Matching = {i} /\ play_suscept[w] < n) =>
                  /\ play_infections'[0][w] =
                        play_infections[0][w] + play_suscept[w]
                  /\ play_suscept'[w] = 0]_vars

\* C4 amended: an event asking for n infections in a ward of fewer than n
\* play susceptibles is skipped with a warning: play_infections and
\* play_suscept are unchanged.
C4_Skipped ==
    [][AdvanceStep =>
        \A i \in Matching :
            LET w == additional_seeds'[i][2]
                n == additional_seeds'[i][3]
            IN (Matching = {i} /\ play_suscept[w] < n) =>
                  /\ UNCHANGED <<play_suscept, play_infections>>
                  /\ seed_warnings' = 1
                  /\ seed_err' = "none"]_vars

\* the only seed of the file was due today, asked for more than the
\* susceptibles the ward has, and the ward has some
C4_Witness ==
    /\ advanced /\ seed_warnings = 1
    /\ Len(additional_seeds) = 1
    /\ additional_seeds[1][1] = day
    /\ play_suscept[additional_seeds[1][2]] > 0
    /\ play_suscept[additional_seeds[1][2]] < additional_seeds[1][3]
    /\ play_infections[0][additional_seeds[1][2]] = 0

\* C5: advance_additional never makes play_suscept negative, and a call
\* that met a shortfall raises nothing, so the run goes on.
C5_NoUnderflow ==
    /\ \A w \in 1..NNodes : play_suscept[w] >= 0
    /\ seed_warnings > 0 => seed_err = "none"

\* a later day's advance met a shortfall after an earlier seed was applied
C5_Witness ==
    /\ advanced /\ day > 0 /\ seed_warnings > 0 /\ seed_err = "none"
    /\ \E w \in 1..NNodes : play_infections[0][w] > 0

PluginOrder == <<"mover", "iterator", "mixer", "extractor">>
\* the lists the four plugins return for a stage, joined in PluginOrder
RECURSIVE JoinPlugins(_, _)
JoinPlugins(order, kwargs) ==
    IF order = <<>> THEN <<>>
    ELSE PluginCall(plugins[Head(order)], kwargs)
         \o JoinPlugins(Tail(order), kwargs)
\* the lists of the stages of a sequence, joined
RECURSIVE JoinStages(_, _)
JoinStages(ss, bundle) ==
    IF ss = <<>> THEN <<>>
    ELSE JoinPlugins(PluginOrder, [stage |-> Head(ss), bundle |-> bundle])
         \o JoinStages(Tail(ss), bundle)
\* the stage of each plugin query of the last call
CallStages == [i \in 1..Len(plug_calls) |-> plug_calls[i].kwargs.stage]
\* the sequence ss with each element four times in a row
FourEach(ss) == [i \in 1..(4 * Len(ss)) |-> ss[((i - 1) \div 4) + 1]]

\* C6: for a valid stage get_functions queries mover, iterator, mixer and
\* extractor once each, in that order, with the same keyword bundle, and
\* returns their lists joined in that order; for any other stage it raises
\* ValueError and queries no plugin.
C6_GetFunctions ==
    plug_op = "get_functions" =>
        IF plug_stage \in StageSet
        THEN LET kwargs == [stage |-> plug_stage, bundle |-> plug_bundle] IN
             /\ plug_err = "none"
             /\ [i \in 1..Len(plug_calls) |-> plug_calls[i].plugin] = PluginOrder
             /\ \A i \in 1..Len(plug_calls) : plug_calls[i].kwargs = kwargs
             /\ plug_funcs = JoinPlugins(PluginOrder, kwargs)
        ELSE plug_err = "ValueError" /\ plug_calls = <<>> /\ plug_funcs = <<>>

\* get_functions returned for a valid stage, from plugins whose lists differ
C6_Witness ==
    /\ plug_op = "get_functions" /\ plug_stage = "foi"
    /\ plugins.mover = <<"f">> /\ plugins.iterator = <<"g">>
    /\ plugins.mixer = <<"f", "g">> /\ plugins.extractor = <<"g">>
    /\ Len(plug_funcs) = 5

\* C7: get_model_loop_functions returns the functions of setup, foi, infect
\* and analyse, in that order, and none obtained for initialise or
\* finalise; get_initialise_functions and get_finalise_functions query the
\* one stage initialise, or finalise.
C7_ModelLoop ==
    /\ plug_op = "get_model_loop_functions" =>
          /\ CallStages = FourEach(<<"setup", "foi", "infect", "analyse">>)
          /\ plug_funcs =
                JoinStages(<<"setup", "foi", "infect", "analyse">>, plug_bundle)
          /\ \A i \in 1..Len(plug_funcs) :
                plug_funcs[i][2] \notin {"initialise", "finalise"}
    /\ plug_op = "get_initialise_functions" =>
          /\ CallStages = FourEach(<<"initialise">>)
          /\ plug_funcs = JoinStages(<<"initialise">>, plug_bundle)
    /\ plug_op = "get_finalise_functions" =>
          /\ CallStages = FourEach(<<"finalise">>)
          /\ plug_funcs = JoinStages(<<"finalise">>, plug_bundle)

\* get_model_loop_functions returned the functions of plugins that all
\* return some
C7_Witness ==
    /\ plug_op = "get_model_loop_functions"
    /\ \A p \in {"mover", "iterator", "mixer", "extractor"} : plugins[p] # <<>>
    /\ plugins.mover # plugins.extractor
    /\ Len(plug_funcs) >= 16

\* C8: iterate_custom returns the custom function's result when the custom
\* function accepts stage or the stage is infect; for any other stage of a
\* function that does not accept stage, and when the function is None, it
\* returns iterate_default's result and the custom function is not called.
C8_IterateCustom ==
    iter_stage # "none" =>
        LET kwargs == [stage |-> iter_stage, bundle |-> iter_bundle]
            custom == /\ ~custom_function.is_none
                      /\ ("stage" \in custom_function.params
                          \/ iter_stage = "infect")
        IN /\ custom => iter_result = Call("custom_function", kwargs)
           /\ ~custom => iter_result = Call("iterate_default", kwargs)

\* a custom function that does not accept stage was called for infect
C8_Witness ==
    /\ iter_stage = "infect"
    /\ ~custom_function.is_none
    /\ "stage" \notin custom_function.params
    /\ iter_result.callee = "custom_function"

\* the number of times f occurs in s
Count(f, s) == Cardinality({i \in 1..Len(s) : s[i] = f})
\* the list the custom mixer returned in the last call of mix_custom
CustomReturned ==
    IF mix_args.calls = 1 /\ ~mixer.returns_none THEN mix_before ELSE <<>>
\* the core functions of the last call that the custom list lacked
AbsentCore ==
    LET Absent(f) == f \notin Range(CustomReturned)
    IN SelectSeq(mix_args.core_funcs, Absent)

\* C9: the list mix_custom returns holds every core function; the core
\* functions the custom list lacks come first, in their order, before the
\* custom functions in their order; a core function the custom list holds
\* is not added again; a second call with the same list object adds none.
C9_MixCustom ==
    /\ Range(mix_args.core_funcs) \subseteq Range(mix_result)
    /\ mix_result = AbsentCore \o CustomReturned
    /\ \A f \in Range(mix_args.core_funcs) :
          Count(f, mix_result) =
              IF f \in Range(CustomReturned) THEN Count(f, CustomReturned)
              ELSE 1
    /\ mix_custom(mixer, mixer_list, mix_args.setup, mix_args.core_funcs).obj
          = mixer_list

\* two core functions were put before a custom list that lacked them, or one
\* was while the other was kept where the custom mixer had put it
C9_Witness ==
    /\ Len(mix_args.core_funcs) = 2
    /\ Len(CustomReturned) >= 2
    /\ Len(AbsentCore) >= 1
    /\ Len(mix_result) = Len(CustomReturned) + Len(AbsentCore)
    /\ mixer_list = mix_result

\* C10: for a sane resolved Ward, from_data(to_data(ward)) raises nothing
\* and equals the ward.
C10_RoundTrip ==
    (assert_sane(ward) /\ is_resolved(ward)) =>
        LET d == to_data(ward) IN
        d.err = "none" /\ from_data(d.data) = Ok(ward)

\* C11 as stated: subtract_workers(n, dest) on an entry of more than n
\* workers raises nothing and takes n from workers[dest] and from
\* num_workers; on an entry of at most n workers it removes the entry and
\* takes its count from num_workers; without an entry the ward is unchanged.
C11_SubtractWorkers ==
    \A n \in 0..MaxWorkers, dest \in DestInputs :
        LET rd == _resolve_destination(ward, dest)
            d == rd.dest
            r == subtract_workers(ward, n, dest)
        IN rd.err = "none" =>
              IF ~Has(ward.workers, d) THEN r = Ok(ward)
              ELSE IF n < ward.workers[d]
              THEN r = Ok([ward EXCEPT !.workers[d] = @ - n,
                                       !.num_workers = @ - n])
              ELSE r = Ok([ward EXCEPT !.workers = Del(ward.workers, d),
                                       !.num_workers = @ - ward.workers[d]])

\* C12 as stated: subtract_player_weight(x, dest) on an entry takes
\* min(x, players[dest]) from it and gives it back to player_total (to
\* within 1e-10); when x is less than the weight of the entry, the entry is
\* kept with the old weight minus x.
C12_SubtractPlayerWeight ==
    \A x \in Tiny..One, dest \in DestInputs :
        LET rd == _resolve_destination(ward, dest)
            d == rd.dest
            r == subtract_player_weight(ward, x, dest)
        IN (rd.err = "none" /\ Has(ward.players, d)) =>
              LET old == ward.players[d]
                  wt == IF x > old THEN old ELSE x
              IN /\ r.err = "none"
                 /\ Abs(r.w.player_total - (ward.player_total + wt)) <= Tiny
                 /\ x < old => /\ Has(r.w.players, d)
                               /\ r.w.players[d] = old - x

\* C13 as stated: add_player_weight(x, dest) with x >= 0 raises, leaving the
\* ward unchanged, when x > player_total + 1e-10; it raises nothing for
\* every x <= player_total + 1e-10, x exactly 1e-10 above player_total
\* included; and an x within 1e-10 of player_total leaves player_total 0.
C13_Threshold ==
    \A x \in 0..(One + Tiny + 1), dest \in DestInputs :
        LET rd == _resolve_destination(ward, dest)
            t == ward.player_total
            r == add_player_weight(ward, x, dest)
        IN rd.err = "none" =>
              /\ x > t + Tiny => r = Raise(ward, "ValueError")
              /\ x <= t + Tiny => r.err = "none"
              /\ (x >= Tiny /\ Abs(x - t) < Tiny) => r.w.player_total = 0

\* C13 amended: add_player_weight(x, dest) ignores an x below 1e-10; it
\* raises, leaving the ward unchanged, when x >= 1e-10 and
\* x >= player_total + 1e-10; for 1e-10 <= x < player_total + 1e-10 it
\* raises nothing and adds to players[dest] what it takes from
\* player_total, and an x less than 1e-10 away from player_total leaves
\* player_total 0.
C13_StrictThreshold ==
    \A x \in 0..(One + Tiny + 1), dest \in DestInputs :
        LET rd == _resolve_destination(ward, dest)
            d == rd.dest
            t == ward.player_total
            r == add_player_weight(ward, x, dest)
        IN rd.err = "none" =>
              /\ x < Tiny => r = Ok(ward)
              /\ (x >= Tiny /\ x >= t + Tiny) => r = Raise(ward, "ValueError")
              /\ (x >= Tiny /\ x < t + Tiny) =>
                    /\ r.err = "none"
                    /\ Abs(x - t) < Tiny => r.w.player_total = 0
                    /\ Abs(r.w.players[d] - Get(ward.players, d, 0) - x) < Tiny
                    /\ Abs(t - r.w.player_total - x) < Tiny + Tiny

\* a weight of at least 1e-10 has just been refused on a ward whose
\* player_total had been brought to 0 by earlier additions
C13_Witness ==
    /\ ward_err = "ValueError"
    /\ ward.player_total = 0
    /\ SumValues(ward.players) = One
    /\ add_player_weight(ward, Tiny, 1).err = "ValueError"
    /\ add_player_weight(ward, Tiny - 1, 1) = Ok(ward)

\* the keys of a map of ward w that stand for the ward itself
SelfKeys(w, d) == {k \in DOMAIN d : k = w.id \/ k = w.info}
\* map d of ward w after its self-destination entries have moved to key new
Rekeyed(w, d, after, new) ==
    /\ \A k \in SelfKeys(w, d) : ~Has(after, k)
    /\ SelfKeys(w, d) # {} => Has(after, new)
    /\ \A k \in SelfKeys(w, d) : SelfKeys(w, d) = {k} => after[new] = d[k]
    /\ \A k \in (DOMAIN d) \ SelfKeys(w, d) : Has(after, k) /\ after[k] = d[k]

\* C14 as stated: a set_id(new) that succeeds and changes the id leaves no
\* key equal to the old id or to the ward's WardInfo in workers or players,
\* each such entry being keyed by new with its value, also when a map holds
\* both keys; set_id raises, leaving the ward unchanged, when new is a key
\* of either map.
C14_SetId ==
    \A new \in 1..MaxId :
        LET r == set_id(ward, new) IN
        new # ward.id =>
            /\ (Has(ward.workers, new) \/ Has(ward.players, new)) =>
                  r = Raise(ward, "ValueError")
            /\ r.err = "none" =>
                  /\ r.w.id = new
                  /\ Rekeyed(ward, ward.workers, r.w.workers, new)
                  /\ Rekeyed(ward, ward.players, r.w.players, new)

\* the WardInfo keys of the two maps of ward w
UnresolvedKeys(w) ==
    {k \in (DOMAIN w.workers) \cup (DOMAIN w.players) : ~isinstance_int(k)}
\* a WardInfo key of map d whose index in wards is an integer key of d
Collides(d, wards) ==
    \E k \in DOMAIN d :
        /\ ~isinstance_int(k) /\ Wards_contains(wards, k)
        /\ Has(d, Wards_index(wards, k))

\* C15 as stated: resolve(wards) raises when a WardInfo key of workers or
\* players is not in wards, and raises when the index looked up is already
\* an integer key; when it raises nothing, every key of both maps is a
\* positive integer.
C15_Resolve ==
    \A wards \in WardsInputs, order \in {"asc", "desc"} :
        LET r == resolve(ward, wards, order) IN
        /\ (\E k \in UnresolvedKeys(ward) : ~Wards_contains(wards, k)) =>
              r.err # "none"
        /\ (Collides(ward.workers, wards) \/ Collides(ward.players, wards)) =>
              r.err # "none"
        /\ r.err = "none" =>
              \A k \in (DOMAIN r.w.workers) \cup (DOMAIN r.w.players) : k >= 1

\* the own id is an auto-assigned destination of ward w, as C16 has it
AutoAssigned(w, no_auto_assign) ==
    w.auto_assign_players /\ ~no_auto_assign /\ w.player_total > 0
\* what C16 has get_player_lists return for ward w
StatedPlayerLists(w, no_auto_assign) ==
    LET keys == SortedSeq((DOMAIN w.players)
                   \cup (IF AutoAssigned(w, no_auto_assign) THEN {w.id} ELSE {}))
    IN [wards |-> keys,
        weights |-> [i \in 1..Len(keys) |->
                       Get(w.players, keys[i], 0)
                       + (IF AutoAssigned(w, no_auto_assign) /\ keys[i] = w.id
                          THEN w.player_total ELSE 0)],
        err |-> "none"]

\* C16 as stated: on a resolved ward get_player_lists returns the stored
\* destinations and weights, and adds the own id (with the residual
\* player_total) only when auto_assign_players is true, no_auto_assign is
\* false and player_total > 0; with player_total 0 and no own entry the own
\* id is not among the destinations.
C16_PlayerLists ==
    \A no_auto_assign \in BOOLEAN :
        is_resolved(ward) =>
            get_player_lists(ward, no_auto_assign)
                = StatedPlayerLists(ward, no_auto_assign)

\* C15 amended: resolve(wards) replaces every WardInfo key that is in wards
\* by its index, keeping the value, and leaves a WardInfo key that is not
\* in wards where it is, raising nothing for it; it raises KeyError when
\* the index looked up is already an integer key.  When it raises nothing,
\* the keys that are not positive integers are exactly the WardInfo keys
\* that are not in wards.
C15_ResolvePresent ==
    \A wards \in WardsInputs, order \in {"asc", "desc"} :
        LET r == resolve(ward, wards, order) IN
        /\ (Collides(ward.workers, wards) \/ Collides(ward.players, wards)) =>
              r.err = "KeyError"
        /\ (\A k \in UnresolvedKeys(ward) : ~Wards_contains(wards, k)) =>
              r = Ok(ward)
        /\ r.err = "none" =>
              /\ UnresolvedKeys(r.w) =
                    {k \in UnresolvedKeys(ward) : ~Wards_contains(wards, k)}
              /\ \A k \in ((DOMAIN r.w.workers) \cup (DOMAIN r.w.players))
                              \ UnresolvedKeys(r.w) : k >= 1
              /\ \A k \in DOMAIN ward.workers :
                    LET n == IF ~isinstance_int(k) /\ Wards_contains(wards, k)
                             THEN Wards_index(wards, k) ELSE k
                    IN Has(r.w.workers, n) /\ r.w.workers[n] = ward.workers[k]
              /\ r.w.num_workers = ward.num_workers

\* the ward has workers on an integer key and on the key InfoB, and a
\* resolve against wards that hold only InfoA returns leaving it as it is
C15_Witness ==
    /\ ward_err = "none"
    /\ InfoB \in DOMAIN ward.workers
    /\ \E k \in DOMAIN ward.workers : isinstance_int(k)
    /\ resolve(ward, (InfoA :> 1), "asc") = Ok(ward)
    /\ ~is_resolved(ward)

\* the weight get_player_lists gives for destination k, or NoneV if k is
\* not among the destinations
ListedWeight(l, k) ==
    IF \E i \in 1..Len(l.wards) : l.wards[i] = k
    THEN l.weights[CHOOSE i \in 1..Len(l.wards) : l.wards[i] = k]
    ELSE NoneV

\* C16 amended: on a resolved ward get_player_lists returns the
\* destinations in ascending order; with no_auto_assign set, or with
\* auto_assign_players false, they are the stored entries with their
\* weights; otherwise the own id is always among them, also when
\* player_total is 0 and the ward has no entry for itself (its weight is
\* then 0), and its weight is the stored weight, if any, plus player_total.
C16_OwnIdAppended ==
    \A no_auto_assign \in BOOLEAN :
        LET l == get_player_lists(ward, no_auto_assign)
            auto == ward.auto_assign_players /\ ~no_auto_assign
        IN is_resolved(ward) =>
              /\ l.err = "none"
              /\ Len(l.weights) = Len(l.wards)
              /\ \A i, j \in 1..Len(l.wards) : i < j => l.wards[i] < l.wards[j]
              /\ Range(l.wards) =
                    (DOMAIN ward.players) \cup (IF auto THEN {ward.id} ELSE {})
              /\ \A k \in Range(l.wards) :
                    ListedWeight(l, k) =
                        Get(ward.players, k, 0)
                        + (IF auto /\ k = ward.id THEN ward.player_total ELSE 0)

\* a resolved auto-assigning ward has given all its weight to another ward
\* and get_player_lists lists its own id with weight 0
C16_Witness ==
    /\ is_resolved(ward) /\ ward.auto_assign_players
    /\ ward.player_total = 0
    /\ ward.players # EmptyDict /\ ~Has(ward.players, ward.id)
    /\ ListedWeight(get_player_lists(ward, FALSE), ward.id) = 0
    /\ ListedWeight(get_player_lists(ward, TRUE), ward.id) = NoneV

\* C17 as stated: for a resolved ward that is sane and whose weights and
\* player_total sum to 1.0, auto_assign_players true or false, the weights
\* of get_player_lists() sum to 1.0 to within 1e-10.
C17_PlayWeights ==
    (/\ is_resolved(ward) /\ assert_sane(ward)
     /\ SumValues(ward.players) + ward.player_total = One) =>
        LET l == get_player_lists(ward, FALSE) IN
        l.err = "none" /\ Abs(SumSeq(l.weights) - One) <= Tiny

\* C17 amended: for a resolved ward the weights of get_player_lists() sum
\* to the stored weights plus player_total when auto_assign_players is
\* true, and to the stored weights alone when it is false; so they sum to
\* 1.0 when the stored weights and player_total do and auto_assign_players
\* is true or player_total is 0.
C17_PlayWeightsAuto ==
    is_resolved(ward) =>
        LET l == get_player_lists(ward, FALSE)
            total == SumValues(ward.players) + ward.player_total
        IN /\ l.err = "none"
           /\ ward.auto_assign_players => SumSeq(l.weights) = total
           /\ ~ward.auto_assign_players =>
                 SumSeq(l.weights) = total - ward.player_total
           /\ (total = One /\ (ward.auto_assign_players \/ ward.player_total = 0))
                 => SumSeq(l.weights) = One

\* a resolved ward with part of its weight on another ward: with
\* auto_assign_players the lists sum to 1.0 through the own id; the same
\* ward without auto_assign_players would fall short by player_total
C17_Witness ==
    /\ is_resolved(ward) /\ ward.auto_assign_players
    /\ ward.players # EmptyDict /\ ~Has(ward.players, ward.id)
    /\ ward.player_total > 0
    /\ SumValues(ward.players) + ward.player_total = One
    /\ SumSeq(get_player_lists(ward, FALSE).weights) = One
    /\ SumSeq(get_player_lists([ward EXCEPT !.auto_assign_players = FALSE],
                               FALSE).weights) = One - ward.player_total

\* C18 as stated: from_data sets num_workers to the sum of the worker
\* populations of the data, and raises whenever the num_workers field of
\* the data differs from that sum, a field of 0 beside a non-empty workers
\* list included.  The data are those of a resolved ward with the field
\* num_workers replaced by n.
C18_FromDataNumWorkers ==
    \A n \in 0..(MaxWorkers + 1) :
        LET d == to_data(ward) IN
        (is_resolved(ward) /\ d.err = "none") =>
            LET sum == SumSeq(d.data.workers_population)
                r == from_data([d.data EXCEPT !.num_workers = n])
            IN /\ n # sum => r.err # "none"
               /\ r.err = "none" => r.w.num_workers = sum

\* the populations of the subnets sum, node by node, to those of the
\* overall Network, and their link weights sum to its link weights
SubnetSumsMatch(n) ==
    /\ \A w \in DOMAIN n.overall.pops :
          SumSeq([i \in 1..Len(n.subnets) |-> n.subnets[i].pops[w]])
              = n.overall.pops[w]
    /\ \A l \in DOMAIN n.overall.weights :
          SumSeq([i \in 1..Len(n.subnets) |-> n.subnets[i].weights[l]])
              = n.overall.weights[l]

\* C19 as stated: a Networks whose subnet populations in some ward, or
\* subnet weights on some link, do not sum to the value of the overall
\* Network is rejected: Networks.build does not return it, or
\* Networks.assert_sane raises on it.
C19_Rejected ==
    (networks # NoNetworks /\ ~SubnetSumsMatch(networks)) => net_sane # "ok"

\* C20: a run with seed 0 seeds the master generator as seed 15324 does;
\* the five numbers are the first five ran_binomial(rng, 0.5, 100) draws of
\* that master generator, the thread generators are derived from the master
\* generator as the five draws leave it, and all of these, the master
\* generator afterwards and the run_model call are those of the same run
\* with seed 15324.
C20_SeedZero ==
    run_args.seed = 0 =>
        LET master == seed_ran_binomial(DevSeed, 1)
            d1 == ran_binomial(master, One \div 2, 100)
            d2 == ran_binomial(d1.rng, One \div 2, 100)
            d3 == ran_binomial(d2.rng, One \div 2, 100)
            d4 == ran_binomial(d3.rng, One \div 2, 100)
            d5 == ran_binomial(d4.rng, One \div 2, 100)
            tg == create_thread_generators(d5.rng, run_result.nthreads)
        IN /\ run_result.seeded = master
           /\ master = DevSeed
           /\ run_result.randnums =
                 <<d1.value, d2.value, d3.value, d4.value, d5.value>>
           /\ run_result.rngs = tg.rngs
           /\ run_result.rng = tg.rng
           /\ Len(run_result.rngs) = run_result.nthreads
           /\ \A os_seed \in 1..MaxSeed, available \in 1..MaxThreads :
                 (run_args.nthreads # NoneV
                      \/ available = run_result.nthreads) =>
                    run_result = Networks_run(DevSeed, run_args.nthreads,
                                     run_args.s, run_args.nsteps, os_seed,
                                     available)

\* a run with seed 0 on two threads has drawn its five numbers and made its
\* two thread generators
C20_Witness ==
    /\ run_args.calls = 1 /\ run_args.seed = 0
    /\ Len(run_result.randnums) = 5
    /\ Len(run_result.rngs) = 2
    /\ run_result.run_model.rngs = run_result.rngs

DiseaseSlots(dp) ==
    {<<"beta", i>> : i \in 0..(Len(dp.beta) - 1)}
        \cup {<<"progress", i>> : i \in 0..(Len(dp.progress) - 1)}
SlotValue(dp, slot) ==
    IF slot[1] = "beta" THEN dp.beta[slot[2] + 1]
    ELSE dp.progress[slot[2] + 1]

\* C22: a set_variables(v) call that returns leaves the Parameters it was
\* called on as it was, its disease_params included, and returns a
\* Parameters whose slots named in v hold the values of v while every other
\* slot, list and scalar equals the original's; this is so too when the
\* Parameters called on was itself returned by an earlier set_variables.
C22_SetVariables ==
    [][(par_op' = "set_variables" /\ par_err' = "none") =>
          /\ params' = params
          /\ Len(par_result') = 1
          /\ LET v == par_arg'.variables
                 old == params.disease_params
                 new == par_result'[1].disease_params
             IN /\ \A n \in DOMAIN v : SlotValue(new, SlotOf[n]) = v[n]
                /\ DiseaseSlots(new) = DiseaseSlots(old)
                /\ \A slot \in DiseaseSlots(old) \ {SlotOf[n] : n \in DOMAIN v} :
                       SlotValue(new, slot) = SlotValue(old, slot)
                /\ new.is_none = old.is_none
                /\ new.too_ill_to_move = old.too_ill_to_move
                /\ new.contrib_foi = old.contrib_foi
                /\ par_result'[1].disease = params.disease
                /\ par_result'[1].length_day = params.length_day]_vars

\* set_variables was called on a Parameters that an earlier set_variables
\* returned, whose beta[2] differs from that of the ncov disease, and the
\* Parameters it returned has beta[2] overridden again
C22_Witness ==
    /\ par_op = "set_variables" /\ par_err = "none"
    /\ ~params.disease_params.is_none
    /\ Len(params.disease_params.beta) = 4
    /\ params.disease_params.beta[3] # Disease_load("ncov").d.beta[3]
    /\ "beta[2]" \in DOMAIN par_arg.variables
    /\ par_result[1].disease_params.beta[3] # params.disease_params.beta[3]
    /\ par_result[1].disease_params.progress = params.disease_params.progress

\* C25 as stated: after p.set_disease(d) has returned, p.disease_params
\* equals d, the Disease loaded under that name when d is a name.
C25_SetDisease ==
    (par_op = "set_disease" /\ par_err = "none") =>
        LET d == IF par_arg.disease.is_name
                 THEN Disease_load(par_arg.disease.name).d
                 ELSE par_arg.disease.obj
        IN /\ ~params.disease_params.is_none
           /\ Disease_eq(params.disease_params, d)

\* the first line of the file holds exactly five comma-separated numbers
FiveNumbers(file) ==
    /\ Len(file) >= 1
    /\ Len(file[1]) = 5
    /\ \A k \in 1..5 : file[1][k] >= 0

C29_SetNumWorkers ==
    \A n \in 0..MaxWorkers :
        LET r == set_num_workers(ward, n)
            home == _resolve_destination(ward, NoneV).dest
            lower == ward.num_workers - n
        IN /\ r.err = "none" =>
                 /\ r.w.num_workers = n
                 /\ \A k \in (DOMAIN ward.workers \cup DOMAIN r.w.workers)
                                \ {home} :
                        /\ k \in DOMAIN ward.workers
                        /\ k \in DOMAIN r.w.workers
                        /\ r.w.workers[k] = ward.workers[k]
           /\ (lower > 0 /\ lower <= get_workers(ward, NoneV)) =>
                 /\ r.err = "none"
                 /\ get_workers(r.w, NoneV)
                        = get_workers(ward, NoneV) - lower
           /\ r.err = "ValueError" =>
                 /\ r.w = ward
                 /\ lower > get_workers(ward, NoneV)

\* the namespaces of the last call, and what defining the name means
NamespaceOf(module_name) ==
    IF module_name \in DOMAIN build_args.sys_modules
    THEN build_args.sys_modules[module_name] ELSE EmptyDict
Defines(module_name) ==
    build_args.function_name \in DOMAIN NamespaceOf(module_name)
DefinesCallable(module_name) ==
    /\ Defines(module_name)
    /\ NamespaceOf(module_name)[build_args.function_name].callable
Found(module_name) ==
    /\ build_result.err = "none"
    /\ build_result.func = NamespaceOf(module_name)[build_args.function_name]

\* C23 as stated: the name is looked up in the bundled iterators namespace,
\* then the caller's namespace, then __main__, and the first of them that
\* defines it gives the function; a loadable module is used only when
\* none of the three defines the name.
C23_FirstHit ==
    build_args # NoBuild =>
        /\ Defines("metawards.iterators") => Found("metawards.iterators")
        /\ (~Defines("metawards.iterators")
                /\ Defines(build_args.parent_name)) =>
               Found(build_args.parent_name)
        /\ (~Defines("metawards.iterators")
                /\ ~Defines(build_args.parent_name)
                /\ Defines("__main__")) => Found("__main__")
        /\ build_result.func.origin = "module" =>
               /\ ~Defines("metawards.iterators")
               /\ ~Defines(build_args.parent_name)
               /\ ~Defines("__main__")

\* C23 amended: the name is looked up in the bundled iterators namespace,
\* then the namespace of the module that defines build_custom_iterator,
\* then the caller's namespace, then __main__, and the first of them that
\* defines it as a callable gives the function; a loadable module is used
\* only when none of the four defines the name as a callable.
C23_FirstCallable ==
    build_args # NoBuild =>
        LET own == "metawards.iterators._iterate_custom" IN
        /\ DefinesCallable("metawards.iterators") =>
               Found("metawards.iterators")
        /\ (~DefinesCallable("metawards.iterators")
                /\ DefinesCallable(own)) => Found(own)
        /\ (~DefinesCallable("metawards.iterators")
                /\ ~DefinesCallable(own)
                /\ DefinesCallable(build_args.parent_name)) =>
               Found(build_args.parent_name)
        /\ (~DefinesCallable("metawards.iterators")
                /\ ~DefinesCallable(own)
                /\ ~DefinesCallable(build_args.parent_name)
                /\ DefinesCallable("__main__")) => Found("__main__")
        /\ build_result.func.origin = "module" =>
               /\ ~DefinesCallable("metawards.iterators")
               /\ ~DefinesCallable(own)
               /\ ~DefinesCallable(build_args.parent_name)
               /\ ~DefinesCallable("__main__")

\* the name is a function in the module of build_custom_iterator, in the
\* caller's namespace and in a loadable module, the bundled namespace holds
\* it as an object without __call__, and the function of the module of
\* build_custom_iterator was wrapped
C23_Witness ==
    /\ build_args # NoBuild
    /\ build_args.parent_name = "caller"
    /\ Defines("metawards.iterators")
    /\ ~DefinesCallable("metawards.iterators")
    /\ DefinesCallable("metawards.iterators._iterate_custom")
    /\ DefinesCallable("caller")
    /\ build_args.function_name \in DOMAIN build_args.loadable
    /\ build_result.err = "none"
    /\ build_result.func.origin = "own"

\* C24 as stated: on a single Network, when the only line of the seeds
\* file gives the date of the current day, or the number of the current
\* day, and the ward has enough susceptibles, advance_additional moves the
\* count of the line from play_suscept[ward] to play_infections[0][ward];
\* called on another day it leaves both alone.
C24_DateApplied ==
    [][(/\ AdvanceStep
        /\ ~seed_is_networks
        /\ Len(seed_lines) = 1
        /\ seed_lines[1].count <= play_suscept[seed_lines[1].ward]) =>
          LET w == seed_lines[1].ward
              n == seed_lines[1].count
          IN IF seed_lines[1].day \in {DateWord(day), IntWord(day)}
             THEN /\ play_suscept'[w] = play_suscept[w] - n
                  /\ play_infections'[0][w] = play_infections[0][w] + n
             ELSE UNCHANGED <<play_suscept, play_infections>>]_vars

\* C26 as stated: once the seeds file of a Networks is loaded, every line
\* of four words that names a demographic has given a seed that carries
\* the index of that demographic, with its ward looked up in the subnet of
\* that demographic, whatever the lines before it name.
C26_OwnDemographic ==
    (seed_is_networks /\ seeds_loaded) =>
        \A i \in 1..Len(seed_lines) :
            seed_lines[i].demographic \notin {"", "overall"} =>
                LET d == Demographics_get_index(seed_lines[i].demographic).index
                IN /\ additional_seeds[i][4] = d
                   /\ seed_lookups[i] = d

\* C27 as stated: when advance_additional runs on a Networks, every seed
\* of the day, the only one of the day for its demographic (the first
\* demographic when it names none) and ward, with enough susceptibles in
\* that subnet, moves its count from that subnet's play_suscept[ward] to
\* that demographic's play infections at stage 0, and the counters of the
\* overall network are untouched.
C27_OwnSubnet ==
    [][(AdvanceStep /\ seed_is_networks /\ seeds_loaded') =>
          LET demographic(i) ==
                  IF additional_seeds'[i][4] = NoneV THEN 0
                  ELSE additional_seeds'[i][4]
          IN /\ \A i \in Matching :
                    LET d == demographic(i) + 1
                        w == additional_seeds'[i][2]
                        n == additional_seeds'[i][3]
                    IN (/\ \A j \in Matching \ {i} :
                              \/ demographic(j) + 1 # d
                              \/ additional_seeds'[j][2] # w
                        /\ n <= sub_play_suscept[d][w]) =>
                          /\ sub_play_suscept'[d][w]
                                 = sub_play_suscept[d][w] - n
                          /\ sub_plays'[d][0][w] = sub_plays[d][0][w] + n
             /\ UNCHANGED <<play_suscept, play_infections>>]_vars

\* C28 as stated: Networks.rescale_play_matrix calls rescale_play_matrix
\* on the overall Network and then on every subnet, and nothing else, so
\* no Network is reset; move_from_play_to_work likewise calls
\* move_from_play_to_work on the overall Network and on every subnet.
C28_SameNamed ==
    net_method \in {"rescale_play_matrix", "move_from_play_to_work"} =>
        net_calls = [i \in 1..(Len(networks.subnets) + 1) |->
                        NetworkCall(i - 1, net_method)]

====
